---- MODULE Spec2Model ----
(***************************************************************************)
(* Model of the generic 64-bit page-table engine (mm/page_table):          *)
(* PageTable64 / PageTableMut of table64.rs together with the four         *)
(* architecture entry codecs of arch/*.rs.                                 *)
(*                                                                         *)
(* Physical memory is a function from frame addresses to tables of         *)
(* ENTRY_COUNT entries.  An entry is the raw 64-bit word, kept as the pair *)
(* (address field, set of attribute bits that are set); the word is zero   *)
(* exactly when the address field is zero and no attribute bit is set.     *)
(* The fan-out of a table is scaled down (ENTRY_COUNT), so that one "2M"   *)
(* page is ENTRY_COUNT base pages and one "1G" page ENTRY_COUNT "2M"       *)
(* pages; the level structure, the index arithmetic and the base page size *)
(* are those of the source.                                                *)
(***************************************************************************)
EXTENDS Integers, Sequences, FiniteSets, TLC

----------------------------------------------------------------------------
(* Geometry *)

\* table64.rs:10 has 512; the model keeps the radix structure with a small fan-out
ENTRY_COUNT == 2

PAGE_SIZE_4K == 4096

Size4K == PAGE_SIZE_4K
Size2M == PAGE_SIZE_4K * ENTRY_COUNT
Size1G == PAGE_SIZE_4K * ENTRY_COUNT * ENTRY_COUNT

PageSizes == {Size4K, Size2M, Size1G}

\* PageSize::is_huge
size_is_huge(s) == s # Size4K

FLUSH_THRESHOLD == 16

\* number of frames the frame allocator can hand out
MaxFrames == 6

p4_idx(vaddr) == (vaddr \div (PAGE_SIZE_4K * ENTRY_COUNT * ENTRY_COUNT * ENTRY_COUNT)) % ENTRY_COUNT
p3_idx(vaddr) == (vaddr \div (PAGE_SIZE_4K * ENTRY_COUNT * ENTRY_COUNT)) % ENTRY_COUNT
p2_idx(vaddr) == (vaddr \div (PAGE_SIZE_4K * ENTRY_COUNT)) % ENTRY_COUNT
p1_idx(vaddr) == (vaddr \div PAGE_SIZE_4K) % ENTRY_COUNT

\* MemoryAddr::align_down / align_offset / is_aligned
align_down(a, s) == a - (a % s)
align_offset(a, s) == a % s
is_aligned(a, s) == a % s = 0

Indices == 0 .. (ENTRY_COUNT - 1)

----------------------------------------------------------------------------
(* Architectures: entry codec and PagingMetaData::LEVELS *)

Archs == {"x86_64", "aarch64", "riscv_sv39", "riscv_sv48", "loongarch64"}

LEVELS(arch) == IF arch = "riscv_sv39" THEN 3 ELSE 4

PagingFlagBits == {"READ", "WRITE", "EXECUTE", "USER", "DEVICE", "UNCACHED"}

\* the address field of an entry holds bits 12 and up of the address
MaskPaddr(p) == p - (p % PAGE_SIZE_4K)

ZeroEntry == [paddr |-> 0, attr |-> {}]

Bit(c, b) == IF c THEN {b} ELSE {}

(* x86_64 *)
X64_from_flags(f) ==
    IF f = {} THEN {}
    ELSE {"PRESENT"}
         \cup Bit("WRITE" \in f, "WRITABLE")
         \cup Bit("EXECUTE" \notin f, "NO_EXECUTE")
         \cup Bit("USER" \in f, "USER_ACCESSIBLE")
         \cup (IF "DEVICE" \in f \/ "UNCACHED" \in f THEN {"NO_CACHE", "WRITE_THROUGH"} ELSE {})

X64_to_flags(a) ==
    IF "PRESENT" \notin a THEN {}
    ELSE {"READ"}
         \cup Bit("WRITABLE" \in a, "WRITE")
         \cup Bit("NO_EXECUTE" \notin a, "EXECUTE")
         \cup Bit("USER_ACCESSIBLE" \in a, "USER")
         \cup Bit("NO_CACHE" \in a, "UNCACHED")

X64_new_page(paddr, flags, huge) ==
    [paddr |-> MaskPaddr(paddr), attr |-> X64_from_flags(flags) \cup Bit(huge, "HUGE_PAGE")]

X64_new_table(paddr) ==
    [paddr |-> MaskPaddr(paddr), attr |-> {"PRESENT", "WRITABLE", "USER_ACCESSIBLE"}]

X64_set_flags(e, flags, huge) ==
    [paddr |-> e.paddr, attr |-> X64_from_flags(flags) \cup Bit(huge, "HUGE_PAGE")]

X64_is_present(e) == "PRESENT" \in e.attr

X64_is_huge(e) == "HUGE_PAGE" \in e.attr

(* AArch64 *)
\* Arm64Attr::from_mem_attr: index in bits 2..4, Normal memory is inner shareable
A64_from_mem_attr(idx) ==
    Bit(idx % 2 = 1, "ATTR_INDX_0") \cup Bit((idx \div 2) % 2 = 1, "ATTR_INDX_1")
    \cup (IF idx = 1 \/ idx = 2 THEN {"INNER", "SHAREABLE"} ELSE {})

\* Arm64Attr::mem_attr: 0 Device, 1 Normal, 2 NormalNonCacheable, 3 and up none
A64_mem_attr(a) ==
    (IF "ATTR_INDX_0" \in a THEN 1 ELSE 0) + (IF "ATTR_INDX_1" \in a THEN 2 ELSE 0)

A64_from_flags(f) ==
    IF f = {} THEN {}
    ELSE {"VALID", "AF", "NON_BLOCK"}
         \cup Bit("WRITE" \notin f, "AP_RO")
         \cup (IF "EXECUTE" \notin f THEN {"UXN", "PXN"} ELSE {})
         \cup Bit("USER" \in f, "AP_EL0")
         \cup A64_from_mem_attr(IF "DEVICE" \in f THEN 0
                                ELSE IF "UNCACHED" \in f THEN 2 ELSE 1)

A64_to_flags(a) ==
    IF "VALID" \notin a THEN {}
    ELSE {"READ"}
         \cup Bit("AP_RO" \notin a /\ "AP_NO_WRITE_TABLE" \notin a, "WRITE")
         \cup Bit("UXN" \notin a /\ "XN_TABLE" \notin a, "EXECUTE")
         \cup Bit("AP_EL0" \in a /\ "AP_NO_EL0_TABLE" \notin a, "USER")
         \cup (IF A64_mem_attr(a) = 0 THEN {"DEVICE", "UNCACHED"}
               ELSE IF A64_mem_attr(a) = 2 THEN {"UNCACHED"} ELSE {})

A64_new_page(paddr, flags, huge) ==
    [paddr |-> MaskPaddr(paddr),
     attr |-> IF huge THEN A64_from_flags(flags) \ {"NON_BLOCK"} ELSE A64_from_flags(flags)]

A64_new_table(paddr) ==
    [paddr |-> MaskPaddr(paddr), attr |-> {"VALID", "NON_BLOCK"} \cup A64_from_mem_attr(1)]

A64_set_flags(e, flags, huge) ==
    [paddr |-> e.paddr,
     attr |-> IF huge THEN A64_from_flags(flags) \ {"NON_BLOCK"} ELSE A64_from_flags(flags)]

A64_is_present(e) == "VALID" \in e.attr

A64_is_huge(e) == "VALID" \in e.attr /\ "NON_BLOCK" \notin e.attr

(* RISC-V Sv39 / Sv48 *)
Rv_from_flags(f) ==
    IF f = {} THEN {}
    ELSE {"V"}
         \cup Bit("READ" \in f, "R")
         \cup Bit("WRITE" \in f, "W")
         \cup Bit("EXECUTE" \in f, "X")
         \cup Bit("USER" \in f, "U")

Rv_to_flags(a) ==
    IF "V" \notin a THEN {}
    ELSE Bit("R" \in a, "READ")
         \cup Bit("W" \in a, "WRITE")
         \cup Bit("X" \in a, "EXECUTE")
         \cup Bit("U" \in a, "USER")

Rv_new_page(paddr, flags, huge) ==
    [paddr |-> MaskPaddr(paddr), attr |-> Rv_from_flags(flags) \cup {"A", "D"}]

Rv_new_table(paddr) ==
    [paddr |-> MaskPaddr(paddr), attr |-> {"V"}]

Rv_set_flags(e, flags, huge) ==
    [paddr |-> e.paddr, attr |-> Rv_from_flags(flags) \cup {"A", "D"}]

Rv_is_present(e) == "V" \in e.attr

Rv_is_huge(e) == "V" \in e.attr /\ ("R" \in e.attr \/ "X" \in e.attr)

(* LoongArch64 *)
La_from_flags(f) ==
    IF f = {} THEN {}
    ELSE {"V", "P"}
         \cup Bit("READ" \notin f, "NR")
         \cup (IF "WRITE" \in f THEN {"W", "D"} ELSE {})
         \cup Bit("EXECUTE" \notin f, "NX")
         \cup (IF "USER" \in f THEN {"PLVL", "PLVH"} ELSE {})
         \cup (IF "DEVICE" \in f THEN {}
               ELSE IF "UNCACHED" \in f THEN {"MATH"} ELSE {"MATL"})

La_to_flags(a) ==
    IF "V" \notin a THEN {}
    ELSE Bit("NR" \notin a, "READ")
         \cup Bit("W" \in a, "WRITE")
         \cup Bit("NX" \notin a, "EXECUTE")
         \cup Bit({"PLVL", "PLVH"} \subseteq a, "USER")
         \cup (IF "MATL" \notin a
               THEN (IF "MATH" \in a THEN {"UNCACHED"} ELSE {"DEVICE"})
               ELSE {})

La_new_page(paddr, flags, huge) ==
    [paddr |-> MaskPaddr(paddr), attr |-> La_from_flags(flags) \cup Bit(huge, "GH")]

La_new_table(paddr) ==
    [paddr |-> MaskPaddr(paddr), attr |-> {"V"}]

La_set_flags(e, flags, huge) ==
    [paddr |-> e.paddr, attr |-> La_from_flags(flags) \cup Bit(huge, "GH")]

La_is_present(e) == "V" \in e.attr

La_is_huge(e) == "GH" \in e.attr

(* PageTableEntry, dispatched on the architecture *)
IsRv(arch) == arch \in {"riscv_sv39", "riscv_sv48"}

new_page(arch, paddr, flags, huge) ==
    CASE arch = "x86_64" -> X64_new_page(paddr, flags, huge)
      [] arch = "aarch64" -> A64_new_page(paddr, flags, huge)
      [] IsRv(arch) -> Rv_new_page(paddr, flags, huge)
      [] arch = "loongarch64" -> La_new_page(paddr, flags, huge)

new_table(arch, paddr) ==
    CASE arch = "x86_64" -> X64_new_table(paddr)
      [] arch = "aarch64" -> A64_new_table(paddr)
      [] IsRv(arch) -> Rv_new_table(paddr)
      [] arch = "loongarch64" -> La_new_table(paddr)

entry_flags(arch, e) ==
    CASE arch = "x86_64" -> X64_to_flags(e.attr)
      [] arch = "aarch64" -> A64_to_flags(e.attr)
      [] IsRv(arch) -> Rv_to_flags(e.attr)
      [] arch = "loongarch64" -> La_to_flags(e.attr)

set_paddr(e, paddr) == [paddr |-> MaskPaddr(paddr), attr |-> e.attr]

set_flags(arch, e, flags, huge) ==
    CASE arch = "x86_64" -> X64_set_flags(e, flags, huge)
      [] arch = "aarch64" -> A64_set_flags(e, flags, huge)
      [] IsRv(arch) -> Rv_set_flags(e, flags, huge)
      [] arch = "loongarch64" -> La_set_flags(e, flags, huge)

is_unused(e) == e.paddr = 0 /\ e.attr = {}

is_present(arch, e) ==
    CASE arch = "x86_64" -> X64_is_present(e)
      [] arch = "aarch64" -> A64_is_present(e)
      [] IsRv(arch) -> Rv_is_present(e)
      [] arch = "loongarch64" -> La_is_present(e)

is_huge(arch, e) ==
    CASE arch = "x86_64" -> X64_is_huge(e)
      [] arch = "aarch64" -> A64_is_huge(e)
      [] IsRv(arch) -> Rv_is_huge(e)
      [] arch = "loongarch64" -> La_is_huge(e)

----------------------------------------------------------------------------
(* Physical memory and the frame allocator (PagingHandler) *)

\* frames H::alloc_frame can return (frame 0 is never handed out)
PoolFrames == {k * PAGE_SIZE_4K : k \in 1 .. MaxFrames}

\* physical memory that callers map; it is not managed by the engine
DataBase == Size1G * (1 + ((MaxFrames * PAGE_SIZE_4K) \div Size1G))
DataFrames == {DataBase + k * PAGE_SIZE_4K : k \in 0 .. (ENTRY_COUNT * ENTRY_COUNT - 1)}

FrameAddrs == PoolFrames \cup DataFrames

ZeroTable == [i \in Indices |-> ZeroEntry]

SetMin(S) == CHOOSE x \in S : \A y \in S : x <= y

Range(q) == {q[i] : i \in 1 .. Len(q)}

\* The engine's view of the machine while one call runs: memory, the set of
\* outstanding frames, how many alloc_frame calls still succeed, and the
\* alloc_frame / dealloc_frame calls made so far by the call.
MkSt(m, o, b) == [mem |-> m, out |-> o, budget |-> b, allocd |-> <<>>, freed |-> <<>>]

\* alloc_table that hands out the frame as alloc_frame returned it
alloc_table_dirty(st) ==
    LET free == PoolFrames \ st.out IN
    IF st.budget = 0 \/ free = {}
    THEN [ok |-> FALSE, err |-> "NoMemory", st |-> st, paddr |-> 0]
    ELSE LET f == SetMin(free) IN
         [ok |-> TRUE, err |-> "Ok",
          st |-> [st EXCEPT !.out = st.out \cup {f},
                            !.budget = st.budget - 1,
                            !.allocd = Append(st.allocd, f)],
          paddr |-> f]

\* PageTable64::alloc_table: alloc_frame, then zero-fill
alloc_table(st) ==
    LET free == PoolFrames \ st.out IN
    IF st.budget = 0 \/ free = {}
    THEN [ok |-> FALSE, err |-> "NoMemory", st |-> st, paddr |-> 0]
    ELSE LET f == SetMin(free) IN
         [ok |-> TRUE, err |-> "Ok",
          st |-> [st EXCEPT !.mem = [st.mem EXCEPT ![f] = ZeroTable],
                            !.out = st.out \cup {f},
                            !.budget = st.budget - 1,
                            !.allocd = Append(st.allocd, f)],
          paddr |-> f]

\* H::dealloc_frame for each frame of q, in order
dealloc_frames(st, q) ==
    [st EXCEPT !.out = st.out \ Range(q), !.freed = st.freed \o q]

----------------------------------------------------------------------------
(* PageTable64: walking *)

next_table(arch, entry) ==
    IF entry.paddr = 0
    THEN [ok |-> FALSE, err |-> "NotMapped", paddr |-> 0]
    ELSE IF is_huge(arch, entry)
         THEN [ok |-> FALSE, err |-> "MappedToHugePage", paddr |-> 0]
         ELSE [ok |-> TRUE, err |-> "Ok", paddr |-> entry.paddr]

EntryAt(frame, idx, size) == [ok |-> TRUE, err |-> "Ok", frame |-> frame, idx |-> idx, size |-> size]
NoEntry(err) == [ok |-> FALSE, err |-> err, frame |-> 0, idx |-> 0, size |-> 0]

\* get_entry: the place (table frame, index) of the entry that translates vaddr
get_entry(arch, mem, root, vaddr) ==
    LET top == IF LEVELS(arch) = 3
               THEN [ok |-> TRUE, err |-> "Ok", paddr |-> root]
               ELSE next_table(arch, mem[root][p4_idx(vaddr)])
    IN  IF ~top.ok THEN NoEntry(top.err)
        ELSE LET p3 == top.paddr
                 p3e == mem[p3][p3_idx(vaddr)]
             IN  IF is_huge(arch, p3e) THEN EntryAt(p3, p3_idx(vaddr), Size1G)
                 ELSE LET n2 == next_table(arch, p3e) IN
                      IF ~n2.ok THEN NoEntry(n2.err)
                      ELSE LET p2e == mem[n2.paddr][p2_idx(vaddr)] IN
                           IF is_huge(arch, p2e) THEN EntryAt(n2.paddr, p2_idx(vaddr), Size2M)
                           ELSE LET n1 == next_table(arch, p2e) IN
                                IF ~n1.ok THEN NoEntry(n1.err)
                                ELSE EntryAt(n1.paddr, p1_idx(vaddr), Size4K)

\* get_entry_mut walks exactly as get_entry does
get_entry_mut(arch, mem, root, vaddr) == get_entry(arch, mem, root, vaddr)

QueryErr(err) == [ok |-> FALSE, err |-> err, paddr |-> 0, flags |-> {}, size |-> 0]

query(arch, mem, root, vaddr) ==
    LET g == get_entry(arch, mem, root, vaddr) IN
    IF ~g.ok THEN QueryErr(g.err)
    ELSE LET entry == mem[g.frame][g.idx] IN
         IF ~is_present(arch, entry) THEN QueryErr("NotMapped")
         ELSE [ok |-> TRUE, err |-> "Ok",
               paddr |-> entry.paddr + align_offset(vaddr, g.size),
               flags |-> entry_flags(arch, entry),
               size |-> g.size]

RECURSIVE dealloc_tree(_, _, _, _)
RECURSIVE dealloc_children(_, _, _, _, _)

\* the loop of dealloc_tree over the entries i, i+1, ... of one table
dealloc_children(arch, mem, table_paddr, level, i) ==
    IF i >= ENTRY_COUNT THEN <<>>
    ELSE LET entry == mem[table_paddr][i] IN
         (IF next_table(arch, entry).ok
          THEN dealloc_tree(arch, mem, entry.paddr, level + 1)
          ELSE <<>>)
         \o dealloc_children(arch, mem, table_paddr, level, i + 1)

\* dealloc_tree: the frames passed to dealloc_frame, in call order
dealloc_tree(arch, mem, table_paddr, level) ==
    (IF level < LEVELS(arch) - 1
     THEN dealloc_children(arch, mem, table_paddr, level, 0)
     ELSE <<>>)
    \o <<table_paddr>>

RECURSIVE drop_root_entries(_, _, _, _, _)

\* the loop of Drop without the test of borrowed_entries
drop_root_entries_all(arch, mem, root, borrowed, i) ==
    IF i >= ENTRY_COUNT THEN <<>>
    ELSE (IF next_table(arch, mem[root][i]).ok
          THEN dealloc_tree(arch, mem, mem[root][i].paddr, 1)
          ELSE <<>>)
         \o drop_root_entries(arch, mem, root, borrowed, i + 1)

\* the loop of Drop over the root entries i, i+1, ...
drop_root_entries(arch, mem, root, borrowed, i) ==
    IF i >= ENTRY_COUNT THEN <<>>
    ELSE (IF i \notin borrowed /\ next_table(arch, mem[root][i]).ok
          THEN dealloc_tree(arch, mem, mem[root][i].paddr, 1)
          ELSE <<>>)
         \o drop_root_entries(arch, mem, root, borrowed, i + 1)

\* Drop for PageTable64: the frames passed to dealloc_frame, in call order
drop_table(arch, mem, root, borrowed) ==
    drop_root_entries(arch, mem, root, borrowed, 0) \o <<root>>

----------------------------------------------------------------------------
(* PageTableMut: pending flushes *)

\* the argument None of M::flush_tlb (flush everything) in a list of flush_tlb arguments
FlushAll == -1

NoFlush == [kind |-> "None", addrs |-> <<>>]

\* flush that records an address only once
flush_dedup(fl, vaddr) ==
    CASE fl.kind = "None" -> [kind |-> "Addresses", addrs |-> <<vaddr>>]
      [] fl.kind = "Addresses" ->
            IF \E i \in 1 .. Len(fl.addrs) : fl.addrs[i] = vaddr THEN fl
            ELSE IF Len(fl.addrs) < FLUSH_THRESHOLD
                 THEN [kind |-> "Addresses", addrs |-> Append(fl.addrs, vaddr)]
                 ELSE [kind |-> "Full", addrs |-> <<>>]
      [] fl.kind = "Full" -> fl

\* flush that gives up the address list one address early
flush_early_full(fl, vaddr) ==
    CASE fl.kind = "None" -> [kind |-> "Addresses", addrs |-> <<vaddr>>]
      [] fl.kind = "Addresses" ->
            IF Len(fl.addrs) < FLUSH_THRESHOLD - 1
            THEN [kind |-> "Addresses", addrs |-> Append(fl.addrs, vaddr)]
            ELSE [kind |-> "Full", addrs |-> <<>>]
      [] fl.kind = "Full" -> fl

flush(fl, vaddr) ==
    CASE fl.kind = "None" -> [kind |-> "Addresses", addrs |-> <<vaddr>>]
      [] fl.kind = "Addresses" ->
            IF Len(fl.addrs) < FLUSH_THRESHOLD
            THEN [kind |-> "Addresses", addrs |-> Append(fl.addrs, vaddr)]
            ELSE [kind |-> "Full", addrs |-> <<>>]
      [] fl.kind = "Full" -> fl

\* finish that flushes nothing once the address list has overflowed
finish_calls_skip_full(fl) ==
    CASE fl.kind = "None" -> <<>>
      [] fl.kind = "Addresses" -> fl.addrs
      [] fl.kind = "Full" -> <<>>

\* finish that flushes every recorded address twice
finish_calls_twice(fl) ==
    CASE fl.kind = "None" -> <<>>
      [] fl.kind = "Addresses" -> fl.addrs \o fl.addrs
      [] fl.kind = "Full" -> <<FlushAll>>

\* finish: the M::flush_tlb calls made, in order (FlushAll stands for flush_tlb(None))
finish_calls(fl) ==
    CASE fl.kind = "None" -> <<>>
      [] fl.kind = "Addresses" -> fl.addrs
      [] fl.kind = "Full" -> <<FlushAll>>

----------------------------------------------------------------------------
(* PageTableMut: single-page operations.  Each returns the result together *)
(* with the machine state st and the pending-flush record fl it leaves.    *)

WalkRes(ok, err, st, paddr) == [ok |-> ok, err |-> err, st |-> st, paddr |-> paddr]

\* next_table_mut_or_create that hands the new table on without linking it
link_new_table_unlinked(arch, st, a, frame, idx) ==
    IF ~a.ok THEN WalkRes(FALSE, a.err, st, 0)
    ELSE WalkRes(TRUE, "Ok", a.st, a.paddr)

\* next_table_mut_or_create, the entry is unused: a is the result of alloc_table
link_new_table(arch, st, a, frame, idx) ==
    IF ~a.ok THEN WalkRes(FALSE, a.err, st, 0)
    ELSE WalkRes(TRUE, "Ok", [a.st EXCEPT !.mem[frame][idx] = new_table(arch, a.paddr)], a.paddr)

\* next_table_mut_or_create, the entry is in use: n is the result of next_table_mut
follow_table(st, n) == WalkRes(n.ok, n.err, st, n.paddr)

\* next_table_mut_or_create on the entry at (frame, idx)
next_table_mut_or_create(arch, st, frame, idx) ==
    IF is_unused(st.mem[frame][idx])
    THEN link_new_table(arch, st, alloc_table(st), frame, idx)
    ELSE follow_table(st, next_table(arch, st.mem[frame][idx]))

CreateErr(err, st) == [ok |-> FALSE, err |-> err, st |-> st, frame |-> 0, idx |-> 0]
CreateAt(st, frame, idx) == [ok |-> TRUE, err |-> "Ok", st |-> st, frame |-> frame, idx |-> idx]

\* get_entry_mut_or_create below the p2 table: n1 is the walk to the p1 table
create_in_p1(n1, vaddr) ==
    IF ~n1.ok THEN CreateErr(n1.err, n1.st)
    ELSE CreateAt(n1.st, n1.paddr, p1_idx(vaddr))

\* get_entry_mut_or_create below the p3 table: n2 is the walk to the p2 table
create_in_p2(arch, n2, vaddr, page_size) ==
    IF ~n2.ok THEN CreateErr(n2.err, n2.st)
    ELSE IF page_size = Size2M THEN CreateAt(n2.st, n2.paddr, p2_idx(vaddr))
    ELSE create_in_p1(next_table_mut_or_create(arch, n2.st, n2.paddr, p2_idx(vaddr)), vaddr)

\* get_entry_mut_or_create that puts a Size1G entry one level too deep
create_in_p3_deep(arch, top, vaddr, page_size) ==
    IF ~top.ok THEN CreateErr(top.err, top.st)
    ELSE create_in_p2(arch, next_table_mut_or_create(arch, top.st, top.paddr, p3_idx(vaddr)),
                      vaddr, IF page_size = Size1G THEN Size2M ELSE page_size)

\* get_entry_mut_or_create from the p3 table: top is the walk to it
create_in_p3(arch, top, vaddr, page_size) ==
    IF ~top.ok THEN CreateErr(top.err, top.st)
    ELSE IF page_size = Size1G THEN CreateAt(top.st, top.paddr, p3_idx(vaddr))
    ELSE create_in_p2(arch, next_table_mut_or_create(arch, top.st, top.paddr, p3_idx(vaddr)),
                      vaddr, page_size)

get_entry_mut_or_create(arch, st, root, vaddr, page_size) ==
    create_in_p3(arch,
                 IF LEVELS(arch) = 3
                 THEN WalkRes(TRUE, "Ok", st, root)
                 ELSE next_table_mut_or_create(arch, st, root, p4_idx(vaddr)),
                 vaddr, page_size)

OpRes(ok, err, st, fl, paddr, flags, size) ==
    [ok |-> ok, err |-> err, st |-> st, fl |-> fl, paddr |-> paddr, flags |-> flags, size |-> size]

\* map_entry that records the flush before it tests the entry
map_entry_flush_first(arch, g, fl, vaddr, target, page_size, flags) ==
    IF ~g.ok THEN OpRes(FALSE, g.err, g.st, fl, 0, {}, 0)
    ELSE IF ~is_unused(g.st.mem[g.frame][g.idx])
         THEN OpRes(FALSE, "AlreadyMapped", g.st, flush(fl, vaddr), 0, {}, 0)
         ELSE OpRes(TRUE, "Ok",
                    [g.st EXCEPT !.mem[g.frame][g.idx] =
                        new_page(arch, align_down(target, page_size), flags, size_is_huge(page_size))],
                    flush(fl, vaddr), 0, {}, page_size)

\* map once get_entry_mut_or_create has returned g
map_entry(arch, g, fl, vaddr, target, page_size, flags) ==
    IF ~g.ok THEN OpRes(FALSE, g.err, g.st, fl, 0, {}, 0)
    ELSE IF ~is_unused(g.st.mem[g.frame][g.idx])
         THEN OpRes(FALSE, "AlreadyMapped", g.st, fl, 0, {}, 0)
         ELSE OpRes(TRUE, "Ok",
                    [g.st EXCEPT !.mem[g.frame][g.idx] =
                        new_page(arch, align_down(target, page_size), flags, size_is_huge(page_size))],
                    flush(fl, vaddr), 0, {}, page_size)

\* map_entry without the check that the target entry is unused
write_entry(arch, g, fl, vaddr, target, page_size, flags) ==
    IF ~g.ok THEN OpRes(FALSE, g.err, g.st, fl, 0, {}, 0)
    ELSE OpRes(TRUE, "Ok",
               [g.st EXCEPT !.mem[g.frame][g.idx] =
                   new_page(arch, align_down(target, page_size), flags, size_is_huge(page_size))],
               flush(fl, vaddr), 0, {}, page_size)

\* map that overwrites an entry in use
map_overwrite(arch, st, fl, root, vaddr, target, page_size, flags) ==
    write_entry(arch, get_entry_mut_or_create(arch, st, root, vaddr, page_size),
                fl, vaddr, target, page_size, flags)

map(arch, st, fl, root, vaddr, target, page_size, flags) ==
    map_entry(arch, get_entry_mut_or_create(arch, st, root, vaddr, page_size),
              fl, vaddr, target, page_size, flags)

remap(arch, st, fl, root, vaddr, paddr, flags) ==
    LET g == get_entry_mut(arch, st.mem, root, vaddr) IN
    IF ~g.ok THEN OpRes(FALSE, g.err, st, fl, 0, {}, 0)
    ELSE LET e1 == set_paddr(st.mem[g.frame][g.idx], paddr)
             e2 == set_flags(arch, e1, flags, size_is_huge(g.size))
         IN  OpRes(TRUE, "Ok", [st EXCEPT !.mem[g.frame][g.idx] = e2],
                   flush(fl, vaddr), 0, {}, g.size)

\* protect that records the flush before it tests the entry
protect_flush_first(arch, st, fl, root, vaddr, flags) ==
    LET g == get_entry_mut(arch, st.mem, root, vaddr) IN
    IF ~g.ok THEN OpRes(FALSE, g.err, st, fl, 0, {}, 0)
    ELSE IF ~is_present(arch, st.mem[g.frame][g.idx])
         THEN OpRes(FALSE, "NotMapped", st, flush(fl, vaddr), 0, {}, 0)
         ELSE OpRes(TRUE, "Ok",
                    [st EXCEPT !.mem[g.frame][g.idx] =
                        set_flags(arch, st.mem[g.frame][g.idx], flags, size_is_huge(g.size))],
                    flush(fl, vaddr), 0, {}, g.size)

protect(arch, st, fl, root, vaddr, flags) ==
    LET g == get_entry_mut(arch, st.mem, root, vaddr) IN
    IF ~g.ok THEN OpRes(FALSE, g.err, st, fl, 0, {}, 0)
    ELSE IF ~is_present(arch, st.mem[g.frame][g.idx])
         THEN OpRes(FALSE, "NotMapped", st, fl, 0, {}, 0)
         ELSE OpRes(TRUE, "Ok",
                    [st EXCEPT !.mem[g.frame][g.idx] =
                        set_flags(arch, st.mem[g.frame][g.idx], flags, size_is_huge(g.size))],
                    flush(fl, vaddr), 0, {}, g.size)

\* unmap that reports the mapping but leaves the entry in place
unmap_keep_entry(arch, st, fl, root, vaddr) ==
    LET g == get_entry_mut(arch, st.mem, root, vaddr) IN
    IF ~g.ok THEN OpRes(FALSE, g.err, st, fl, 0, {}, 0)
    ELSE LET entry == st.mem[g.frame][g.idx] IN
         IF ~is_present(arch, entry)
         THEN OpRes(FALSE, "NotMapped", st, fl, 0, {}, 0)
         ELSE OpRes(TRUE, "Ok", st, flush(fl, vaddr),
                    entry.paddr, entry_flags(arch, entry), g.size)

\* unmap that gives a table back to the allocator once its last entry is cleared
unmap_free_empty(arch, st, fl, root, vaddr) ==
    LET g == get_entry_mut(arch, st.mem, root, vaddr) IN
    IF ~g.ok THEN OpRes(FALSE, g.err, st, fl, 0, {}, 0)
    ELSE LET entry == st.mem[g.frame][g.idx]
             cleared == [st EXCEPT !.mem[g.frame][g.idx] = ZeroEntry]
         IN  IF ~is_present(arch, entry)
             THEN OpRes(FALSE, "NotMapped", cleared, fl, 0, {}, 0)
             ELSE OpRes(TRUE, "Ok",
                        IF cleared.mem[g.frame] = ZeroTable /\ g.frame # root
                        THEN dealloc_frames(cleared, <<g.frame>>) ELSE cleared,
                        flush(fl, vaddr), entry.paddr, entry_flags(arch, entry), g.size)

unmap(arch, st, fl, root, vaddr) ==
    LET g == get_entry_mut(arch, st.mem, root, vaddr) IN
    IF ~g.ok THEN OpRes(FALSE, g.err, st, fl, 0, {}, 0)
    ELSE LET entry == st.mem[g.frame][g.idx]
             cleared == [st EXCEPT !.mem[g.frame][g.idx] = ZeroEntry]
         IN  IF ~is_present(arch, entry)
             THEN OpRes(FALSE, "NotMapped", cleared, fl, 0, {}, 0)
             ELSE OpRes(TRUE, "Ok", cleared, flush(fl, vaddr),
                        entry.paddr, entry_flags(arch, entry), g.size)

----------------------------------------------------------------------------
(* PageTableMut: region operations *)

\* width of usize, scaled with the address space: the virtual address space
\* of a 4-level table is half of the usize range
USIZE_MOD == 2 * PAGE_SIZE_4K * ENTRY_COUNT * ENTRY_COUNT * ENTRY_COUNT * ENTRY_COUNT

\* a region loop that has run this many iterations never ends
LoopFuel == 2 * (USIZE_MOD \div PAGE_SIZE_4K)

\* the phys_getter closures callers pass: a window of physical memory at DataBase,
\* shifted by shift bytes
phys_getter(shift, vaddr) == DataBase + ((vaddr + shift) % Size1G)

RegRes(ok, err, st, fl, calls) ==
    [ok |-> ok, err |-> err, st |-> st, fl |-> fl, calls |-> calls]

Call(vaddr, paddr, size, ok) == [vaddr |-> vaddr, paddr |-> paddr, size |-> size, ok |-> ok]

\* the page size map_region picks for the next map call
pick_size(vaddr_val, p_addr, rem_size, allow_huge) ==
    IF allow_huge
    THEN IF is_aligned(vaddr_val, Size1G) /\ is_aligned(p_addr, Size1G) /\ rem_size >= Size1G
         THEN Size1G
         ELSE IF is_aligned(vaddr_val, Size2M) /\ is_aligned(p_addr, Size2M)
                 /\ rem_size >= Size2M
              THEN Size2M
              ELSE Size4K
    ELSE Size4K

RECURSIVE map_region_loop(_, _, _, _, _, _, _, _, _, _)

\* map_region that forgets the pending flushes when a map call fails
map_region_step_unflushed(arch, r, root, vaddr_val, rem_size, shift, flags, allow_huge, p_size, c) ==
    IF ~r.ok THEN RegRes(FALSE, r.err, r.st, NoFlush, c)
    ELSE map_region_loop(arch, r.st, r.fl, root, vaddr_val + p_size,
                         rem_size - p_size, shift, flags, allow_huge, c)

\* one iteration of map_region after its map call has returned r
map_region_step(arch, r, root, vaddr_val, rem_size, shift, flags, allow_huge, p_size, c) ==
    IF ~r.ok THEN RegRes(FALSE, r.err, r.st, r.fl, c)
    ELSE map_region_loop(arch, r.st, r.fl, root, vaddr_val + p_size,
                         rem_size - p_size, shift, flags, allow_huge, c)

\* one iteration of map_region after its map call has returned r: the call is recorded
map_region_mapped(arch, r, root, vaddr_val, rem_size, shift, flags, allow_huge, calls, p_addr, p_size) ==
    map_region_step(arch, r, root, vaddr_val, rem_size, shift, flags, allow_huge, p_size,
                    Append(calls, Call(vaddr_val, p_addr, p_size, r.ok)))

\* one iteration of map_region: the map call with the chosen target and size
map_region_call(arch, st, fl, root, vaddr_val, rem_size, shift, flags, allow_huge, calls, p_addr, p_size) ==
    map_region_mapped(arch, map(arch, st, fl, root, vaddr_val, p_addr, p_size, flags),
                      root, vaddr_val, rem_size, shift, flags, allow_huge, calls, p_addr, p_size)

map_region_loop(arch, st, fl, root, vaddr_val, rem_size, shift, flags, allow_huge, calls) ==
    IF rem_size = 0 THEN RegRes(TRUE, "Ok", st, fl, calls)
    ELSE map_region_call(arch, st, fl, root, vaddr_val, rem_size, shift, flags, allow_huge,
                         calls, phys_getter(shift, vaddr_val),
                         pick_size(vaddr_val, phys_getter(shift, vaddr_val), rem_size,
                                   allow_huge))

\* map_region that never picks a huge page
map_region_base_only(arch, st, fl, root, vaddr, shift, size, flags, allow_huge) ==
    IF ~is_aligned(vaddr, Size4K) \/ ~is_aligned(size, Size4K)
    THEN RegRes(FALSE, "NotAligned", st, fl, <<>>)
    ELSE map_region_loop(arch, st, fl, root, vaddr, size, shift, flags, FALSE, <<>>)

map_region(arch, st, fl, root, vaddr, shift, size, flags, allow_huge) ==
    IF ~is_aligned(vaddr, Size4K) \/ ~is_aligned(size, Size4K)
    THEN RegRes(FALSE, "NotAligned", st, fl, <<>>)
    ELSE map_region_loop(arch, st, fl, root, vaddr, size, shift, flags, allow_huge, <<>>)

\* vaddr_val += p_size; rem_size -= p_size on usize: with overflow checks the
\* build panics, without them the value wraps
StepOverflows(vaddr_val, rem_size, p_size) ==
    vaddr_val + p_size >= USIZE_MOD \/ rem_size < p_size

RECURSIVE unmap_region_loop(_, _, _, _, _, _, _, _)

unmap_region_loop(arch, st, fl, root, vaddr_val, rem_size, checks, calls) ==
    IF rem_size = 0 THEN RegRes(TRUE, "Ok", st, fl, calls)
    ELSE IF Len(calls) >= LoopFuel THEN RegRes(FALSE, "Hang", st, fl, calls)
    ELSE LET r == unmap(arch, st, fl, root, vaddr_val)
             c == Append(calls, Call(vaddr_val, r.paddr, r.size, r.ok))
         IN  IF ~r.ok THEN RegRes(FALSE, r.err, r.st, r.fl, c)
             ELSE IF checks /\ StepOverflows(vaddr_val, rem_size, r.size)
                  THEN RegRes(FALSE, "Panic", r.st, r.fl, c)
                  ELSE unmap_region_loop(arch, r.st, r.fl, root,
                                         (vaddr_val + r.size) % USIZE_MOD,
                                         (rem_size + USIZE_MOD - r.size) % USIZE_MOD,
                                         checks, c)

\* unmap_region that stops after the first page
unmap_region_single(arch, st, fl, root, vaddr, size, checks) ==
    unmap_region_loop(arch, st, fl, root, vaddr,
                      IF size = 0 THEN 0 ELSE query(arch, st.mem, root, vaddr).size,
                      checks, <<>>)

unmap_region(arch, st, fl, root, vaddr, size, checks) ==
    unmap_region_loop(arch, st, fl, root, vaddr, size, checks, <<>>)

RECURSIVE protect_region_loop(_, _, _, _, _, _, _, _, _)

\* without overflow checks rem_size -= p_size below zero leaves nearly the whole
\* usize range to go, and NotMapped does not end the loop: the call does not
\* return ("Hang")
protect_region_loop(arch, st, fl, root, vaddr_val, rem_size, flags, checks, calls) ==
    IF rem_size = 0 THEN RegRes(TRUE, "Ok", st, fl, calls)
    ELSE IF Len(calls) >= LoopFuel THEN RegRes(FALSE, "Hang", st, fl, calls)
    ELSE LET r == protect(arch, st, fl, root, vaddr_val, flags)
             p_size == IF r.ok THEN r.size ELSE Size4K
             c == Append(calls, Call(vaddr_val, 0, p_size, r.ok))
         IN  IF ~r.ok /\ r.err # "NotMapped" THEN RegRes(FALSE, r.err, r.st, r.fl, c)
             ELSE IF checks /\ StepOverflows(vaddr_val, rem_size, p_size)
                  THEN RegRes(FALSE, "Panic", r.st, r.fl, c)
                  ELSE IF rem_size < p_size
                  THEN RegRes(FALSE, "Hang", r.st, r.fl, c)
                  ELSE protect_region_loop(arch, r.st, r.fl, root,
                                           (vaddr_val + p_size) % USIZE_MOD,
                                           (rem_size + USIZE_MOD - p_size) % USIZE_MOD,
                                           flags, checks, c)

protect_region(arch, st, fl, root, vaddr, size, flags, checks) ==
    protect_region_loop(arch, st, fl, root, vaddr, size, flags, checks, <<>>)

----------------------------------------------------------------------------
(* PageTableMut: copy_from *)

index_fn(arch, vaddr) == IF LEVELS(arch) = 3 THEN p3_idx(vaddr) ELSE p4_idx(vaddr)

RECURSIVE copy_from_loop(_, _, _, _, _, _, _)

\* copy_from that marks the index and leaves this table's entry as it is
copy_from_loop_keep(arch, st, dst_root, borrowed, src_root, i, end_idx) ==
    IF i >= end_idx THEN [st |-> st, borrowed |-> borrowed]
    ELSE LET entry == st.mem[dst_root][i]
             st1 == IF i \notin borrowed /\ next_table(arch, entry).ok
                    THEN dealloc_frames(st, dealloc_tree(arch, st.mem, entry.paddr, 1))
                    ELSE st
         IN  copy_from_loop(arch, st1, dst_root, borrowed \cup {i}, src_root, i + 1, end_idx)

\* the loop of copy_from over the root indices i .. end_idx - 1
copy_from_loop(arch, st, dst_root, borrowed, src_root, i, end_idx) ==
    IF i >= end_idx THEN [st |-> st, borrowed |-> borrowed]
    ELSE LET entry == st.mem[dst_root][i]
             st1 == IF i \notin borrowed /\ next_table(arch, entry).ok
                    THEN dealloc_frames(st, dealloc_tree(arch, st.mem, entry.paddr, 1))
                    ELSE st
             st2 == [st1 EXCEPT !.mem[dst_root][i] = st1.mem[src_root][i]]
         IN  copy_from_loop(arch, st2, dst_root, borrowed \cup {i}, src_root, i + 1, end_idx)

\* copy_from that does not keep the borrowed_entries bits it sets
copy_from_unmarked(arch, st, dst_root, borrowed, src_root, start, size) ==
    IF size = 0 THEN [st |-> st, borrowed |-> borrowed]
    ELSE [st |-> copy_from_loop(arch, st, dst_root, borrowed, src_root,
                                index_fn(arch, start), index_fn(arch, start + size - 1) + 1).st,
          borrowed |-> borrowed]

copy_from(arch, st, dst_root, borrowed, src_root, start, size) ==
    IF size = 0 THEN [st |-> st, borrowed |-> borrowed]
    ELSE copy_from_loop(arch, st, dst_root, borrowed, src_root,
                        index_fn(arch, start), index_fn(arch, start + size - 1) + 1)

----------------------------------------------------------------------------
(* The state machine *)

TableIds == {"A", "B"}

VARIABLES
    arch,     \* the architecture the kernel is built for
    checks,   \* whether the build has integer overflow checks
    mem,      \* physical memory: frame address -> table of entries
    out,      \* frames handed out by alloc_frame and not yet given back
    owner,    \* for each pool frame, the table whose call allocated it last
    tbl,      \* the PageTable64 objects (ncalls counts the mutating calls made on one)
    hnd,      \* the PageTableMut handles
    last      \* the call that ran last: arguments, result, allocator and TLB calls
              \* (repeat: it repeats the successful single-page call made just before)

vars == <<arch, checks, mem, out, owner, tbl, hnd, last>>

\* a table object is created at most once: dropped tells a table that is gone
\* from one that try_new has not yet built (its other fields keep their last values)
NoTable == [alive |-> FALSE, dropped |-> FALSE, root |-> 0, borrowed |-> {}, shared |-> FALSE,
            ncalls |-> 0]
NoHandle == [open |-> FALSE, flush |-> NoFlush, muts |-> <<>>]

LastRec(op, t, vaddr, paddr, size, flags, ok, err) ==
    [op |-> op, t |-> t, vaddr |-> vaddr, paddr |-> paddr, size |-> size, flags |-> flags,
     ok |-> ok, err |-> err, rpaddr |-> 0, rflags |-> {}, rsize |-> 0,
     allocd |-> <<>>, freed |-> <<>>, flushed |-> <<>>, calls |-> <<>>, huge |-> FALSE,
     repeat |-> FALSE]

\* contents a mapped data frame may hold when the walk reads it as a table
JunkTable == [i \in Indices |-> IF i = 0 THEN [paddr |-> DataBase + PAGE_SIZE_4K, attr |-> {}]
                                ELSE ZeroEntry]

InitWith(archs, builds, images) ==
    /\ arch \in archs
    /\ checks \in builds
    /\ \E img \in images :
          mem = [f \in FrameAddrs |-> IF f = DataBase THEN img ELSE ZeroTable]
    /\ out = {}
    /\ owner = [f \in PoolFrames |-> "none"]
    /\ tbl = [t \in TableIds |-> NoTable]
    /\ hnd = [t \in TableIds |-> NoHandle]
    /\ last = LastRec("init", "none", 0, 0, 0, {}, TRUE, "Ok")

\* a panic or a loop that never ends stops the kernel
Halted == last.err \in {"Panic", "Hang"}

Running(t) == ~Halted /\ tbl[t].alive
Session(t) == ~Halted /\ tbl[t].alive /\ hnd[t].open

\* the machine a call on a table starts from
StNow(budget) == MkSt(mem, out, budget)

\* the effect of a call's alloc_frame / dealloc_frame calls and memory writes
Commit(t, st) ==
    /\ mem' = st.mem
    /\ out' = st.out
    /\ owner' = [f \in PoolFrames |-> IF f \in Range(st.allocd) THEN t ELSE owner[f]]

\* the successful single-page calls of a region call
OkAddrs(calls) == SelectSeq(calls, LAMBDA c : c.ok)
RECURSIVE CallAddrs(_)
CallAddrs(calls) == IF calls = <<>> THEN <<>> ELSE <<Head(calls).vaddr>> \o CallAddrs(Tail(calls))

TryNew(t, budget) ==
    /\ ~Halted /\ ~tbl[t].alive /\ ~tbl[t].dropped
    /\ LET a == alloc_table(StNow(budget)) IN
       /\ Commit(t, a.st)
       /\ tbl' = [tbl EXCEPT ![t] = IF a.ok
                                    THEN [alive |-> TRUE, dropped |-> FALSE, root |-> a.paddr,
                                          borrowed |-> {}, shared |-> FALSE, ncalls |-> 0]
                                    ELSE NoTable]
       /\ last' = [LastRec("try_new", t, 0, 0, 0, {}, a.ok, a.err)
                       EXCEPT !.allocd = a.st.allocd, !.rpaddr = a.paddr]
    /\ UNCHANGED <<arch, checks, hnd>>

Query(t, vaddr) ==
    /\ Running(t)
    /\ LET q == query(arch, mem, tbl[t].root, vaddr) IN
       last' = [LastRec("query", t, vaddr, 0, 0, {}, q.ok, q.err)
                    EXCEPT !.rpaddr = q.paddr, !.rflags = q.flags, !.rsize = q.size]
    /\ UNCHANGED <<arch, checks, mem, out, owner, tbl, hnd>>

Modify(t) ==
    /\ Running(t) /\ ~hnd[t].open
    /\ hnd' = [hnd EXCEPT ![t] = [open |-> TRUE, flush |-> NoFlush, muts |-> <<>>]]
    /\ last' = LastRec("modify", t, 0, 0, 0, {}, TRUE, "Ok")
    /\ UNCHANGED <<arch, checks, mem, out, owner, tbl>>

\* the common end of a single-page call with result r
SingleDone(t, r, rec) ==
    /\ Commit(t, r.st)
    /\ hnd' = [hnd EXCEPT ![t].flush = r.fl,
                          ![t].muts = IF r.ok THEN Append(@, rec.vaddr) ELSE @]
    /\ last' = [rec EXCEPT !.ok = r.ok, !.err = r.err, !.rpaddr = r.paddr,
                           !.rflags = r.flags, !.rsize = r.size,
                           !.repeat = (last.op = rec.op /\ last.t = t
                                       /\ last.vaddr = rec.vaddr /\ last.ok),
                           !.allocd = r.st.allocd, !.freed = r.st.freed]
    /\ tbl' = [tbl EXCEPT ![t].ncalls = @ + 1]
    /\ UNCHANGED <<arch, checks>>

Map(t, vaddr, target, page_size, flags, budget) ==
    /\ Session(t)
    /\ SingleDone(t, map(arch, StNow(budget), hnd[t].flush, tbl[t].root,
                         vaddr, target, page_size, flags),
                  LastRec("map", t, vaddr, target, page_size, flags, TRUE, "Ok"))

Remap(t, vaddr, paddr, flags) ==
    /\ Session(t)
    /\ SingleDone(t, remap(arch, StNow(0), hnd[t].flush, tbl[t].root, vaddr, paddr, flags),
                  LastRec("remap", t, vaddr, paddr, 0, flags, TRUE, "Ok"))

Protect(t, vaddr, flags) ==
    /\ Session(t)
    /\ SingleDone(t, protect(arch, StNow(0), hnd[t].flush, tbl[t].root, vaddr, flags),
                  LastRec("protect", t, vaddr, 0, 0, flags, TRUE, "Ok"))

Unmap(t, vaddr) ==
    /\ Session(t)
    /\ SingleDone(t, unmap(arch, StNow(0), hnd[t].flush, tbl[t].root, vaddr),
                  LastRec("unmap", t, vaddr, 0, 0, {}, TRUE, "Ok"))

\* the common end of a region call with result r
RegionDone(t, r, rec) ==
    /\ Commit(t, r.st)
    /\ hnd' = [hnd EXCEPT ![t].flush = r.fl,
                          ![t].muts = @ \o CallAddrs(OkAddrs(r.calls))]
    /\ last' = [rec EXCEPT !.ok = r.ok, !.err = r.err, !.calls = r.calls,
                           !.allocd = r.st.allocd, !.freed = r.st.freed]
    /\ tbl' = [tbl EXCEPT ![t].ncalls = @ + 1]
    /\ UNCHANGED <<arch, checks>>

MapRegion(t, vaddr, shift, size, flags, allow_huge, budget) ==
    /\ Session(t)
    /\ RegionDone(t, map_region(arch, StNow(budget), hnd[t].flush, tbl[t].root,
                                vaddr, shift, size, flags, allow_huge),
                  [LastRec("map_region", t, vaddr, shift, size, flags, TRUE, "Ok")
                       EXCEPT !.huge = allow_huge])

UnmapRegion(t, vaddr, size) ==
    /\ Session(t)
    /\ RegionDone(t, unmap_region(arch, StNow(0), hnd[t].flush, tbl[t].root,
                                  vaddr, size, checks),
                  LastRec("unmap_region", t, vaddr, 0, size, {}, TRUE, "Ok"))

ProtectRegion(t, vaddr, size, flags) ==
    /\ Session(t)
    /\ RegionDone(t, protect_region(arch, StNow(0), hnd[t].flush, tbl[t].root,
                                    vaddr, size, flags, checks),
                  LastRec("protect_region", t, vaddr, 0, size, flags, TRUE, "Ok"))

\* copy_from borrows other immutably: other is alive and has no handle
CopyFrom(t, other, start, size) ==
    /\ Session(t)
    /\ other # t /\ tbl[other].alive /\ ~hnd[other].open
    /\ LET c == copy_from(arch, StNow(0), tbl[t].root, tbl[t].borrowed,
                          tbl[other].root, start, size) IN
       /\ Commit(t, c.st)
       /\ tbl' = [tbl EXCEPT ![t].borrowed = c.borrowed,
                             ![t].ncalls = @ + 1,
                             ![t].shared = TRUE,
                             ![other].shared = TRUE]
       /\ last' = [LastRec("copy_from", t, start, 0, size, {}, TRUE, "Ok")
                       EXCEPT !.freed = c.st.freed]
    /\ UNCHANGED <<arch, checks, hnd>>

Finish(t) ==
    /\ Session(t)
    /\ hnd' = [hnd EXCEPT ![t].flush = NoFlush, ![t].muts = <<>>]
    /\ last' = [LastRec("finish", t, 0, 0, 0, {}, TRUE, "Ok")
                    EXCEPT !.flushed = finish_calls(hnd[t].flush)]
    /\ UNCHANGED <<arch, checks, mem, out, owner, tbl>>

\* Drop for PageTableMut
DropMut(t) ==
    /\ Session(t)
    /\ hnd' = [hnd EXCEPT ![t] = NoHandle]
    /\ last' = [LastRec("drop_mut", t, 0, 0, 0, {}, TRUE, "Ok")
                    EXCEPT !.flushed = finish_calls(hnd[t].flush)]
    /\ UNCHANGED <<arch, checks, mem, out, owner, tbl>>

\* Drop for PageTable64; the table is not borrowed by a handle
DropTable(t) ==
    /\ Running(t) /\ ~hnd[t].open
    /\ LET st == dealloc_frames(StNow(0),
                                drop_table(arch, mem, tbl[t].root, tbl[t].borrowed)) IN
       /\ Commit(t, st)
       /\ last' = [LastRec("drop", t, 0, 0, 0, {}, TRUE, "Ok") EXCEPT !.freed = st.freed]
    /\ tbl' = [tbl EXCEPT ![t].alive = FALSE, ![t].dropped = TRUE]
    /\ UNCHANGED <<arch, checks, hnd>>

----------------------------------------------------------------------------
(* Specification Spec: one table, the single-page calls *)

\* virtual addresses the calls are made on: the first two base pages, which
\* share every table on their path and lie in the same 2M and 1G page
VAddrs == {0, Size4K}

\* flag sets passed by callers: none (a reserved, inaccessible page), read-only,
\* and write without read
FlagChoices == {{}, {"READ"}, {"WRITE"}}

\* physical target of map, and the one remap moves a page to
MapTarget == DataBase
RemapTarget == DataBase + PAGE_SIZE_4K

\* successful mutations per PageTableMut batch, and mutating calls per table
MaxMuts == 2
MaxCalls == 3

Mutable(t) == Len(hnd[t].muts) < MaxMuts /\ tbl[t].ncalls < MaxCalls

Init == InitWith(Archs, {FALSE}, {ZeroTable, JunkTable})

Next ==
    \/ \E b \in 0 .. 1 : TryNew("A", b)
    \/ Modify("A")
    \/ \E v \in VAddrs : Query("A", v)
    \/ \E v \in VAddrs, s \in PageSizes, f \in FlagChoices, b \in 0 .. 3 :
          Mutable("A") /\ is_aligned(v, s) /\ Map("A", v, MapTarget, s, f, b)
    \/ \E v \in VAddrs, f \in FlagChoices : Mutable("A") /\ Remap("A", v, RemapTarget, f)
    \/ \E v \in VAddrs, f \in FlagChoices : Mutable("A") /\ Protect("A", v, f)
    \/ \E v \in VAddrs : Mutable("A") /\ Unmap("A", v)
    \/ Finish("A")
    \/ DropMut("A")
    \/ DropTable("A")

Spec == Init /\ [][Next]_vars

----------------------------------------------------------------------------
(* Properties *)

\* every base page of the virtual address space of a 4-level table, first and last byte
ProbeAddrs ==
    {k * PAGE_SIZE_4K + o :
        k \in 0 .. (ENTRY_COUNT * ENTRY_COUNT * ENTRY_COUNT * ENTRY_COUNT - 1),
        o \in {0, PAGE_SIZE_4K - 1}}

\* the frames of table t that alloc_frame handed out and that are still outstanding
OwnedFrames(t) == {f \in PoolFrames : f \in out /\ owner[f] = t}

NoDuplicates(q) == \A i, j \in 1 .. Len(q) : q[i] = q[j] => i = j

QueryOk(paddr, flags, size) ==
    [ok |-> TRUE, err |-> "Ok", paddr |-> paddr, flags |-> flags, size |-> size]

\* C1: when a table that never took part in copy_from is dropped, Drop passes
\* exactly the frames alloc_frame gave to this table to dealloc_frame, each
\* once, so that the outstanding count falls by exactly that many frames.
C1_DropFreesExactlyOwnFrames ==
    [][(last'.op = "drop" /\ ~tbl[last'.t].shared) =>
          /\ NoDuplicates(last'.freed)
          /\ Range(last'.freed) = OwnedFrames(last'.t)
          /\ out' = out \ OwnedFrames(last'.t)]_vars

\* C3: after a successful map of an aligned (vaddr, paddr) with any flags,
\* query at the first and the last byte of the page returns the mapping.
C3_MapThenQuery ==
    [][(last'.op = "map" /\ last'.ok
        /\ is_aligned(last'.vaddr, last'.size) /\ is_aligned(last'.paddr, last'.size)) =>
          \A off \in {0, last'.size - 1} :
              query(arch, mem', tbl[last'.t].root, last'.vaddr + off)
                  = QueryOk(last'.paddr + off, last'.flags, last'.size)]_vars

\* C7: dealloc_frame is never called on a frame that was only the target of a mapping.
C7_NeverFreesMappedFrames ==
    [][Range(last'.freed) \cap DataFrames = {}]_vars

\* the probe addresses the architecture's tables translate
ValidProbes ==
    {x \in ProbeAddrs : x < PAGE_SIZE_4K * (ENTRY_COUNT ^ LEVELS(arch))}

\* the translation of every valid address is the same in memories m1 and m2
SameQueries(m1, m2, root) ==
    m1 = m2 \/ \A x \in ValidProbes : query(arch, m1, root, x) = query(arch, m2, root, x)

C8_SecondUnmapNotMapped ==
    [][/\ (last'.op = "unmap" /\ last'.ok) =>
             LET g == get_entry_mut(arch, mem, tbl[last'.t].root, last'.vaddr) IN
             g.ok /\ mem'[g.frame][g.idx] = ZeroEntry
       /\ (last'.op = "unmap" /\ last'.repeat) =>
             /\ ~last'.ok /\ last'.err = "NotMapped"
             /\ last'.allocd = <<>> /\ out' = out
             /\ hnd'[last'.t].flush = hnd[last'.t].flush
             /\ mem' = mem]_vars

C8_Witness ==
    /\ last.op = "unmap" /\ last.repeat /\ last.err = "NotMapped"
    /\ hnd[last.t].flush = [kind |-> "Addresses", addrs |-> <<last.vaddr>>]

\* C9: a successful unmap(v) returns the base address, the flags and the size
\* of the mapping that covered v; afterwards no address of that page is
\* mapped and every address outside the page translates as before.
C9_UnmapClearsWholePage ==
    [][(last'.op = "unmap" /\ last'.ok) =>
          LET root == tbl[last'.t].root
              q == query(arch, mem, root, last'.vaddr)
          IN  /\ q.ok
              /\ last'.rpaddr = q.paddr - align_offset(last'.vaddr, q.size)
              /\ last'.rflags = q.flags
              /\ last'.rsize = q.size
              /\ \A x \in ValidProbes :
                    IF align_down(x, q.size) = align_down(last'.vaddr, q.size)
                    THEN query(arch, mem', root, x) = QueryErr("NotMapped")
                    ELSE query(arch, mem', root, x) = query(arch, mem, root, x)]_vars

\* C14: a call that targets a page smaller than the huge mapping that covers its
\* address (map with a smaller page size; protect at an address that is not
\* the base of the huge page) fails with MappedToHugePage and changes no
\* query result.
C14_SmallerPageInHugeFails ==
    [][LET q == query(arch, mem, tbl[last'.t].root, last'.vaddr) IN
       (/\ last'.op \in {"map", "protect"}
        /\ q.ok /\ q.size > Size4K
        /\ \/ last'.op = "map" /\ last'.size < q.size
           \/ last'.op = "protect" /\ ~is_aligned(last'.vaddr, q.size)) =>
          /\ ~last'.ok /\ last'.err = "MappedToHugePage"
          /\ SameQueries(mem, mem', tbl[last'.t].root)]_vars

\* C15: a map that fails with AlreadyMapped changes no entry of any table,
\* calls neither alloc_frame nor dealloc_frame, and leaves the pending flushes
\* of the handle as they were.
C15_AlreadyMappedNoSideEffects ==
    [][(last'.op = "map" /\ last'.err = "AlreadyMapped") =>
          /\ mem' = mem
          /\ last'.allocd = <<>> /\ last'.freed = <<>> /\ out' = out
          /\ hnd'[last'.t].flush = hnd[last'.t].flush]_vars

C15_Witness ==
    /\ last.op = "map" /\ last.err = "AlreadyMapped" /\ last.size = Size1G
    /\ hnd[last.t].flush.kind = "Addresses"

\* C20: remap on an address that query finds not mapped returns NotMapped, and
\* afterwards query still finds it not mapped and no flush is recorded.
C20_RemapUnmappedIsNotMapped ==
    [][(last'.op = "remap" /\ ~query(arch, mem, tbl[last'.t].root, last'.vaddr).ok) =>
          /\ ~last'.ok /\ last'.err = "NotMapped"
          /\ ~query(arch, mem', tbl[last'.t].root, last'.vaddr).ok
          /\ hnd'[last'.t].flush = hnd[last'.t].flush]_vars

----------------------------------------------------------------------------
(* Specification SpecAlias: map and unmap only, one call deeper than Spec *)

AliasFlags == {{}, {"READ"}}

\* mutating calls per table
MaxAliasCalls == 4

AliasInit == InitWith(Archs, {FALSE}, {ZeroTable})

AliasNext ==
    \/ TryNew("A", 1)
    \/ Modify("A")
    \/ \E v \in VAddrs, s \in PageSizes, f \in AliasFlags :
          /\ tbl["A"].ncalls < MaxAliasCalls /\ is_aligned(v, s)
          /\ Map("A", v, MapTarget, s, f, 3)
    \/ \E v \in VAddrs : tbl["A"].ncalls < MaxAliasCalls /\ Unmap("A", v)
    \/ DropMut("A")
    \/ DropTable("A")

SpecAlias == AliasInit /\ [][AliasNext]_vars

----------------------------------------------------------------------------
(* Specification SpecRegion: one table, region calls and single-page calls *)
(* in sessions long enough to overflow the list of addresses to flush      *)

\* the regions start at the first 1G page; the single-page calls work on its
\* second base page
RegionStarts == {0}
SingleAddr == Size4K

\* phys_getter windows: aligned with the region, and one base page off
RegionShifts == {0, Size4K}

\* mutating calls per table
MaxRegionCalls == 6

RegionCall(t) == tbl[t].ncalls < MaxRegionCalls

RegionInit == InitWith(Archs, {FALSE}, {ZeroTable})

RegionNext ==
    \/ TryNew("A", 1)
    \/ Modify("A")
    \/ \E v \in RegionStarts, shift \in RegionShifts, huge \in BOOLEAN :
          RegionCall("A") /\ MapRegion("A", v, shift, Size1G, {"READ"}, huge, 4)
    \/ \E v \in RegionStarts :
          RegionCall("A") /\ ProtectRegion("A", v, Size1G, {"READ", "WRITE"})
    \/ \E v \in RegionStarts : RegionCall("A") /\ UnmapRegion("A", v, Size1G)
    \/ RegionCall("A") /\ Map("A", SingleAddr, MapTarget, Size4K, {"READ"}, 3)
    \/ RegionCall("A") /\ Remap("A", SingleAddr, RemapTarget, {"READ"})
    \/ RegionCall("A") /\ Protect("A", SingleAddr, {"READ", "WRITE"})
    \/ RegionCall("A") /\ Unmap("A", SingleAddr)
    \/ Finish("A")
    \/ DropMut("A")

SpecRegion == RegionInit /\ [][RegionNext]_vars

\* the call that ends a batch: finish, or Drop of the handle
EndsBatch(rec) == rec.op \in {"finish", "drop_mut"}

\* C5: when finish or Drop of the handle runs, every successful mutation of the
\* session since the last finish has its address among the flush_tlb(Some(_))
\* calls, or flush_tlb(None) is called; and no handle goes away with
\* mutations that were not flushed.
C5_NoMutationLeftUnflushed ==
    /\ [][EndsBatch(last') =>
            LET muts == hnd[last'.t].muts IN
            \A i \in 1 .. Len(muts) :
                muts[i] \in Range(last'.flushed) \/ FlushAll \in Range(last'.flushed)]_vars
    /\ [](\A t \in TableIds : ~hnd[t].open => hnd[t].muts = <<>>)

C5_Witness ==
    /\ last.op = "drop_mut" /\ last.flushed = <<FlushAll>>
    /\ ~hnd[last.t].open

\* C6: with n successful mutations since the last finish, finish / Drop makes,
\* for n <= FLUSH_THRESHOLD (16), exactly the n calls flush_tlb(Some(addr)) with
\* the mutations' addresses in call order, repeated addresses included, and no
\* flush_tlb(None); for n >= FLUSH_THRESHOLD + 1 (17), exactly one
\* flush_tlb(None) and nothing else.
C6_FlushCallsByCount ==
    [][EndsBatch(last') =>
          LET muts == hnd[last'.t].muts IN
          /\ Len(muts) <= FLUSH_THRESHOLD => last'.flushed = muts
          /\ Len(muts) >= FLUSH_THRESHOLD + 1 => last'.flushed = <<FlushAll>>]_vars

C6_Witness ==
    /\ EndsBatch(last) /\ Len(last.flushed) = FLUSH_THRESHOLD
    /\ ~NoDuplicates(last.flushed)

\* C10: a map_region call that succeeds on a range that starts 1G-aligned, has a
\* 1G-aligned physical address and is exactly 1G long makes exactly one map
\* call, with Size1G, when allow_huge is set, and exactly Size1G / Size4K map
\* calls (262144 with 512-entry tables), all with Size4K, when it is not.
C10_MapRegionCallCount ==
    [][(/\ last'.op = "map_region" /\ last'.ok
        /\ is_aligned(last'.vaddr, Size1G)
        /\ is_aligned(phys_getter(last'.paddr, last'.vaddr), Size1G)
        /\ last'.size = Size1G) =>
          IF last'.huge
          THEN Len(last'.calls) = 1 /\ last'.calls[1].size = Size1G
          ELSE /\ Len(last'.calls) = Size1G \div Size4K
               /\ \A i \in 1 .. Len(last'.calls) : last'.calls[i].size = Size4K]_vars

C10_Witness ==
    /\ last.op = "map_region" /\ last.ok /\ last.huge
    /\ last.size = Size1G /\ is_aligned(phys_getter(last.paddr, last.vaddr), Size1G)
    /\ Len(last.calls) = 1 /\ last.calls[1].size = Size1G

----------------------------------------------------------------------------
(* Specification SpecShare: table B copies top-level entries of table A *)

\* the range one top-level entry translates
TopSpan == PAGE_SIZE_4K * (ENTRY_COUNT ^ (LEVELS(arch) - 1))

\* the first address under each of the first two top-level entries
ShareAddrs == {0, TopSpan}

\* copy_from sizes: within one top-level entry, and across two
ShareSizes == {PAGE_SIZE_4K, 2 * TopSpan}

\* mutating calls on the two tables together
MaxShareCalls == 3

ShareCall == tbl["A"].ncalls + tbl["B"].ncalls < MaxShareCalls

ShareInit == InitWith(Archs, {FALSE}, {ZeroTable})

ShareNext ==
    \/ \E t \in TableIds : TryNew(t, 1)
    \/ \E t \in TableIds : Modify(t)
    \/ \E t \in TableIds, v \in ShareAddrs, s \in {Size4K, Size1G} :
          ShareCall /\ Map(t, v, MapTarget, s, {"READ"}, 3)
    \/ \E start \in ShareAddrs, size \in ShareSizes :
          ShareCall /\ CopyFrom("B", "A", start, size)
    \/ \E t \in TableIds : DropMut(t)
    \/ \E t \in TableIds : DropTable(t)

SpecShare == ShareInit /\ [][ShareNext]_vars

RECURSIVE Reach(_, _, _)

\* the table frames a walk from table frame table_paddr at level can visit
Reach(m, table_paddr, level) ==
    {table_paddr} \cup
    (IF level < LEVELS(arch) - 1
     THEN UNION {Reach(m, m[table_paddr][i].paddr, level + 1) :
                    i \in {j \in Indices : next_table(arch, m[table_paddr][j]).ok}}
     ELSE {})

\* C2: once B has copied entries from A, Drop of B while A lives passes no
\* frame reachable from A's root to dealloc_frame and changes no query result
\* of A, whose tables all stay allocated; Drop of A after B is gone then
\* frees every table frame reachable from A's root, the shared ones
\* included, exactly once.
C2_DropKeepsSharedSubtrees ==
    [][/\ (last'.op = "drop" /\ last'.t = "B" /\ tbl["B"].shared /\ tbl["A"].alive) =>
             /\ Range(last'.freed) \cap Reach(mem, tbl["A"].root, 0) = {}
             /\ SameQueries(mem, mem', tbl["A"].root)
             /\ Reach(mem', tbl["A"].root, 0) \subseteq out'
       /\ (last'.op = "drop" /\ last'.t = "A" /\ tbl["A"].shared /\ tbl["B"].dropped) =>
             /\ NoDuplicates(last'.freed)
             /\ Range(last'.freed) \subseteq out
             /\ Reach(mem, tbl["A"].root, 0) \subseteq Range(last'.freed)]_vars

C2_Witness ==
    /\ last.op = "drop" /\ last.t = "B" /\ tbl["A"].alive
    /\ \E i \in tbl["B"].borrowed :
          /\ next_table(arch, mem[tbl["A"].root][i]).ok
          /\ mem[tbl["B"].root][i] = mem[tbl["A"].root][i]
    /\ last.freed = <<tbl["B"].root>>

\* the top-level indices copy_from(start, size) goes over
CopiedIndices(start, size) ==
    IF size = 0 THEN {}
    ELSE index_fn(arch, start) .. index_fn(arch, start + size - 1)

\* C16: copy_from passes to dealloc_frame, each exactly once, the frames of the
\* subtrees under the copied top-level indices that the table owns (index not
\* marked borrowed, entry a present child table) and no other frame, so it
\* frees nothing under an index already marked borrowed; it marks every
\* copied index borrowed; and Drop of the table afterwards frees no frame twice
\* and none that is not outstanding.
C16_CopyFromFreesOwnedSubtreesOnce ==
    [][/\ last'.op = "copy_from" =>
             LET root == tbl[last'.t].root
                 idxs == CopiedIndices(last'.vaddr, last'.size)
                 owned == {i \in idxs : /\ i \notin tbl[last'.t].borrowed
                                        /\ next_table(arch, mem[root][i]).ok}
             IN  /\ NoDuplicates(last'.freed)
                 /\ Range(last'.freed) = UNION {Reach(mem, mem[root][i].paddr, 1) : i \in owned}
                 /\ Range(last'.freed) \subseteq out
                 /\ out' = out \ Range(last'.freed)
                 /\ idxs \subseteq tbl'[last'.t].borrowed
       /\ (last'.op = "drop" /\ tbl[last'.t].borrowed # {}) =>
             /\ NoDuplicates(last'.freed)
             /\ Range(last'.freed) \subseteq out]_vars

C16_Witness ==
    /\ last.op = "copy_from" /\ Len(last.freed) >= 2
    /\ CopiedIndices(last.vaddr, last.size) \subseteq tbl[last.t].borrowed
    /\ Range(last.freed) \cap out = {}

----------------------------------------------------------------------------
(* Specification SpecChunks: one map_region call on a table prepared by *)
(* single map calls                                                    *)

\* the range of virtual addresses the tables of the architecture translate
VaSpan == PAGE_SIZE_4K * (ENTRY_COUNT ^ LEVELS(arch))

\* M::vaddr_is_valid: the bits above the translated range are all 0 or all 1
\* (with 4 levels the scaled usize has a single such bit)
vaddr_is_valid(vaddr) ==
    LET top_bits == vaddr \div VaSpan IN
    top_bits = 0 \/ top_bits = (USIZE_MOD \div VaSpan) - 1

\* single map calls made before the map_region call
MaxChunkSetup == 1

\* the pages the single map calls put in the way: (vaddr, page size)
SetupPages == {<<Size4K, Size4K>>, <<Size2M, Size4K>>, <<Size2M, Size2M>>}

\* map_region arguments: starts in the first 1G page and at the first address
\* past the range a 3-level table translates; sizes up to 1G; physical windows
\* aligned to 1G, to 2M only, and to 4K only
ChunkStarts == {0, Size4K, Size2M, PAGE_SIZE_4K * (ENTRY_COUNT ^ 3)}
ChunkSizes == {Size4K, Size2M, Size2M + Size4K, Size1G}
ChunkShifts == {0, Size2M, Size4K}
ChunkFlags == {{"READ"}, {}}
ChunkBudgets == {2, 3, 4}

ChunksInit == InitWith(Archs, {FALSE}, {ZeroTable})

ChunksNext ==
    \/ TryNew("A", 1)
    \/ Modify("A")
    \/ \E pg \in SetupPages, b \in {0, 3} :
          /\ tbl["A"].ncalls < MaxChunkSetup
          /\ Map("A", pg[1], MapTarget, pg[2], {"READ"}, b)
    \/ \E v \in ChunkStarts, size \in ChunkSizes, shift \in ChunkShifts, f \in ChunkFlags,
          huge \in BOOLEAN, b \in ChunkBudgets :
          /\ tbl["A"].ncalls = MaxChunkSetup
          /\ MapRegion("A", v, shift, size, f, huge, b)
    \/ Finish("A")
    \/ DropMut("A")

SpecChunks == ChunksInit /\ [][ChunksNext]_vars

\* the largest page size that fits at vaddr_val with target p_addr and rem_size left
LargestFit(vaddr_val, p_addr, rem_size, allow_huge) ==
    LET fits == {S \in (IF allow_huge THEN PageSizes ELSE {Size4K}) :
                    is_aligned(vaddr_val, S) /\ is_aligned(p_addr, S) /\ rem_size >= S}
    IN  CHOOSE S \in fits : \A S2 \in fits : S2 <= S

\* C11: a map_region call that succeeds makes contiguous map calls from vaddr
\* that sum to size, each for the largest page size that fits (4K only without
\* allow_huge) with the target phys_getter gives, never taking more than what
\* remains; it changes no translation at or above vaddr + size, and afterwards
\* query of every address in a chunk returns the chunk's target plus the
\* offset, the given flags and the chunk's size.
C11_MapRegionGreedyChunks ==
    [][(last'.op = "map_region" /\ last'.ok) =>
          LET calls == last'.calls
              root == tbl[last'.t].root
              rem(i) == last'.size - (calls[i].vaddr - last'.vaddr)
              end == IF calls = <<>> THEN last'.vaddr
                     ELSE calls[Len(calls)].vaddr + calls[Len(calls)].size
          IN  /\ calls # <<>> => calls[1].vaddr = last'.vaddr
              /\ end = last'.vaddr + last'.size
              /\ \A i \in 1 .. Len(calls) :
                    /\ i > 1 => calls[i].vaddr = calls[i - 1].vaddr + calls[i - 1].size
                    /\ calls[i].paddr = phys_getter(last'.paddr, calls[i].vaddr)
                    /\ rem(i) >= calls[i].size
                    /\ calls[i].size = LargestFit(calls[i].vaddr, calls[i].paddr, rem(i), last'.huge)
                    /\ \A x \in ValidProbes :
                          (calls[i].vaddr <= x /\ x < calls[i].vaddr + calls[i].size) =>
                             query(arch, mem', root, x)
                                = QueryOk(calls[i].paddr + (x - calls[i].vaddr),
                                          last'.flags, calls[i].size)
              /\ \A x \in ValidProbes :
                    x >= end => query(arch, mem', root, x) = query(arch, mem, root, x)]_vars

\* C13: a call on an address for which vaddr_is_valid is false fails, writes no
\* entry and allocates no frame.
C13_InvalidAddressRejected ==
    [][(/\ last'.op \in {"query", "map", "remap", "protect", "unmap",
                         "map_region", "unmap_region", "protect_region"}
        /\ ~vaddr_is_valid(last'.vaddr)) =>
          /\ ~last'.ok
          /\ mem' = mem
          /\ last'.allocd = <<>>]_vars

\* the pending-flush record after the addresses of calls 1 .. n were recorded
RECURSIVE FlushedAfter(_, _, _)
FlushedAfter(fl, calls, n) ==
    IF n = 0 THEN fl ELSE flush(FlushedAfter(fl, calls, n - 1), calls[n].vaddr)

\* the entry a map call for (vaddr, page_size) writes, as memory m holds it
EntryFor(m, root, vaddr, page_size) ==
    LET g == get_entry_mut_or_create(arch, MkSt(m, PoolFrames, 0), root, vaddr, page_size)
    IN  IF g.ok THEN m[g.frame][g.idx] ELSE [paddr |-> 0, attr |-> {}]

\* C19: when a map call of map_region fails with AlreadyMapped, MappedToHugePage
\* or NoMemory, map_region returns that error at once (the failing call is its
\* last), every earlier chunk keeps the entry its map call wrote, no
\* translation at or above the failing chunk changes, the earlier chunks'
\* addresses are in the pending-flush record, and the finish or Drop that
\* follows flushes each of them or flushes everything.
C19_MapRegionFailureKeepsEarlierChunks ==
    /\ [][(/\ last'.op = "map_region" /\ ~last'.ok
           /\ last'.err \in {"AlreadyMapped", "MappedToHugePage", "NoMemory"}) =>
             LET calls == last'.calls
                 n == Len(calls)
                 root == tbl[last'.t].root
             IN  /\ n >= 1 /\ ~calls[n].ok
                 /\ \A i \in 1 .. (n - 1) :
                       /\ calls[i].ok
                       /\ EntryFor(mem', root, calls[i].vaddr, calls[i].size)
                            = new_page(arch, align_down(calls[i].paddr, calls[i].size),
                                       last'.flags, size_is_huge(calls[i].size))
                 /\ \A x \in ValidProbes :
                       x >= calls[n].vaddr =>
                          query(arch, mem', root, x) = query(arch, mem, root, x)
                 /\ hnd'[last'.t].flush = FlushedAfter(hnd[last'.t].flush, calls, n - 1)
                 /\ hnd'[last'.t].muts
                      = hnd[last'.t].muts \o [i \in 1 .. (n - 1) |-> calls[i].vaddr]]_vars
    /\ [][(EndsBatch(last') /\ last.op = "map_region" /\ ~last.ok /\ last'.t = last.t) =>
             \A i \in 1 .. Len(last.calls) :
                last.calls[i].ok =>
                   \/ last.calls[i].vaddr \in Range(last'.flushed)
                   \/ FlushAll \in Range(last'.flushed)]_vars

C19_Witness ==
    /\ last.op = "map_region" /\ last.err = "MappedToHugePage"
    /\ Len(last.calls) >= 3
    /\ hnd[last.t].flush.kind = "Addresses"
    /\ Len(hnd[last.t].flush.addrs) >= 2

----------------------------------------------------------------------------
(* Specification SpecRanges: one unmap_region or protect_region call on a *)
(* table prepared by map_region calls, in builds with and without         *)
(* overflow checks                                                         *)

\* map_region calls made before the range call
MaxRangeSetup == 2

\* the prepared mappings start at the first and at the second 2M page
SetupStarts == {0, Size2M}
SetupSizes == {Size4K, Size2M}

\* ranges: starts at the first page, inside it and at the second page; sizes
\* of half a page, one page, 2M, 2M and a page, and 1G
RangeStarts == {0, PAGE_SIZE_4K \div 2, Size4K}
RangeSizes == {PAGE_SIZE_4K \div 2, Size4K, Size2M, Size2M + Size4K, Size1G}
RangeFlags == {{"READ", "WRITE"}}

RangesInit == InitWith(Archs, BOOLEAN, {ZeroTable})

RangesNext ==
    \/ TryNew("A", 1)
    \/ Modify("A")
    \/ \E v \in SetupStarts, size \in SetupSizes, huge \in BOOLEAN, b \in {0, 4} :
          /\ tbl["A"].ncalls < MaxRangeSetup
          /\ MapRegion("A", v, 0, size, {"READ"}, huge, b)
    \/ \E v \in RangeStarts, size \in RangeSizes :
          /\ tbl["A"].ncalls = MaxRangeSetup
          /\ UnmapRegion("A", v, size)
    \/ \E v \in RangeStarts, size \in RangeSizes, f \in RangeFlags :
          /\ tbl["A"].ncalls = MaxRangeSetup
          /\ ProtectRegion("A", v, size, f)
    \/ Finish("A")
    \/ DropMut("A")

SpecRanges == RangesInit /\ [][RangesNext]_vars

\* C12: a region operation whose start address or size is not a multiple of
\* 4K returns NotAligned, changes no entry, allocates no frame and records no
\* flush.
C12_RegionOpsRejectUnaligned ==
    [][(/\ last'.op \in {"map_region", "unmap_region", "protect_region"}
        /\ ~(is_aligned(last'.vaddr, Size4K) /\ is_aligned(last'.size, Size4K))) =>
          /\ ~last'.ok /\ last'.err = "NotAligned"
          /\ mem' = mem
          /\ last'.allocd = <<>>
          /\ hnd'[last'.t].flush = hnd[last'.t].flush]_vars

\* x lies in the range [vaddr, vaddr + size)
InRange(x, vaddr, size) == vaddr <= x /\ x < vaddr + size

\* some address of the range is not mapped
HasGap(m, root, vaddr, size) ==
    \E x \in ValidProbes : InRange(x, vaddr, size) /\ ~query(arch, m, root, x).ok

\* C17: protect_region over a 4K-aligned range with unmapped gaps returns Ok;
\* every address of the range that was mapped keeps its physical address and
\* page size and has the new flags, every address that was not mapped stays
\* unmapped, no frame is allocated, and each protect call that reported
\* NotMapped was followed by a step of 4K.
C17_ProtectRegionSkipsGaps ==
    [][(/\ last'.op = "protect_region"
        /\ is_aligned(last'.vaddr, Size4K) /\ is_aligned(last'.size, Size4K)
        /\ HasGap(mem, tbl[last'.t].root, last'.vaddr, last'.size)) =>
          LET root == tbl[last'.t].root
              calls == last'.calls
          IN  /\ last'.ok
              /\ last'.allocd = <<>>
              /\ \A i \in 1 .. Len(calls) :
                    (~calls[i].ok /\ i < Len(calls)) =>
                       calls[i + 1].vaddr = calls[i].vaddr + Size4K
              /\ \A x \in ValidProbes :
                    InRange(x, last'.vaddr, last'.size) =>
                       LET q == query(arch, mem, root, x) IN
                       IF q.ok
                       THEN query(arch, mem', root, x) = QueryOk(q.paddr, last'.flags, q.size)
                       ELSE ~query(arch, mem', root, x).ok]_vars

\* every address of the range is mapped, by a mapping that lies inside the range
CoveredInside(m, root, vaddr, size) ==
    \A x \in ValidProbes :
       InRange(x, vaddr, size) =>
          LET q == query(arch, m, root, x) IN
          /\ q.ok
          /\ align_down(x, q.size) >= vaddr
          /\ align_down(x, q.size) + q.size <= vaddr + size

\* C18: unmap_region on a range completely covered by mappings lying inside it
\* returns Ok after one unmap call per mapping, each at the address where the
\* previous mapping ended, and leaves every address of the range NotMapped and
\* every other translation as it was; and when unmap_region returns NotMapped,
\* the failing call is its last, was made at an address that was not mapped,
\* every mapping an earlier call of the walk unmapped stays removed (all of the
\* page the call's address lay in) and every translation at or above the
\* failing address is as it was.
C18_UnmapRegionWalk ==
    /\ [][(/\ last'.op = "unmap_region" /\ last'.size > 0
           /\ CoveredInside(mem, tbl[last'.t].root, last'.vaddr, last'.size)) =>
             LET root == tbl[last'.t].root
                 calls == last'.calls
                 n == Len(calls)
             IN  /\ last'.ok
                 /\ n >= 1 /\ calls[1].vaddr = last'.vaddr
                 /\ calls[n].vaddr + calls[n].size = last'.vaddr + last'.size
                 /\ \A i \in 1 .. n :
                       /\ calls[i].ok
                       /\ calls[i].size = query(arch, mem, root, calls[i].vaddr).size
                       /\ i > 1 => calls[i].vaddr = calls[i - 1].vaddr + calls[i - 1].size
                 /\ \A x \in ValidProbes :
                       IF InRange(x, last'.vaddr, last'.size)
                       THEN query(arch, mem', root, x).err = "NotMapped"
                       ELSE query(arch, mem', root, x) = query(arch, mem, root, x)]_vars
    /\ [][(last'.op = "unmap_region" /\ last'.err = "NotMapped") =>
             LET root == tbl[last'.t].root
                 calls == last'.calls
                 n == Len(calls)
             IN  /\ ~last'.ok
                 /\ n >= 1 /\ ~calls[n].ok
                 /\ ~query(arch, mem, root, calls[n].vaddr).ok
                 /\ \A i \in 1 .. (n - 1) :
                       /\ calls[i].ok
                       /\ \A x \in ValidProbes :
                             InRange(x, align_down(calls[i].vaddr, calls[i].size),
                                     calls[i].size) =>
                                ~query(arch, mem', root, x).ok
                 /\ \A x \in ValidProbes :
                       x >= calls[n].vaddr =>
                          query(arch, mem', root, x) = query(arch, mem, root, x)]_vars

C18_Witness ==
    /\ last.op = "unmap_region" /\ last.ok
    /\ Len(last.calls) = 2
    /\ last.calls[1].size = Size2M /\ last.calls[2].size = Size4K
    /\ \A x \in ValidProbes : ~query(arch, mem, tbl[last.t].root, x).ok

----------------------------------------------------------------------------
(* remap and protect on one page *)

\* C21: remap of a mapped address returns the page size of the mapping,
\* allocates and frees no frame, and for a new_paddr aligned to that size
\* query(vaddr) then returns new_paddr plus the offset in the page, the given
\* flags and the same page size.
C21_RemapInPlace ==
    [][LET q == query(arch, mem, tbl[last'.t].root, last'.vaddr) IN
       (last'.op = "remap" /\ q.ok) =>
          /\ last'.ok /\ last'.rsize = q.size
          /\ last'.allocd = <<>> /\ last'.freed = <<>>
          /\ is_aligned(last'.paddr, q.size) =>
                query(arch, mem', tbl[last'.t].root, last'.vaddr)
                   = QueryOk(last'.paddr + (last'.vaddr % q.size), last'.flags, q.size)]_vars

\* C22: protect on a present entry returns the entry's page size, and query then
\* returns the physical address and page size it returned before with the new
\* flags; protect on an entry that is not present returns NotMapped, leaves
\* memory as it was and records no flush.
C22_ProtectChangesFlagsOnly ==
    [][LET root == tbl[last'.t].root
           g == get_entry_mut(arch, mem, root, last'.vaddr)
           q == query(arch, mem, root, last'.vaddr)
       IN  (last'.op = "protect" /\ g.ok) =>
              IF is_present(arch, mem[g.frame][g.idx])
              THEN /\ last'.ok /\ last'.rsize = g.size
                   /\ q.ok => query(arch, mem', root, last'.vaddr)
                                 = QueryOk(q.paddr, last'.flags, q.size)
              ELSE /\ ~last'.ok /\ last'.err = "NotMapped"
                   /\ mem' = mem
                   /\ hnd'[last'.t].flush = hnd[last'.t].flush]_vars

----------------------------------------------------------------------------
(* Specification SpecCalls: every call of one table, on frames that hold    *)
(* whatever the allocator's earlier users left in them                      *)

\* mutating calls per table
MaxOpCalls == 2

\* the address of the single-page calls and the start of the region calls
CallStarts == {0}

CallsInit ==
    /\ arch \in Archs
    /\ checks = FALSE
    /\ \E img \in {ZeroTable, JunkTable} :
          mem = [f \in FrameAddrs |-> IF f \in PoolFrames THEN img ELSE ZeroTable]
    /\ out = {}
    /\ owner = [f \in PoolFrames |-> "none"]
    /\ tbl = [t \in TableIds |-> NoTable]
    /\ hnd = [t \in TableIds |-> NoHandle]
    /\ last = LastRec("init", "none", 0, 0, 0, {}, TRUE, "Ok")

OpCall(t) == tbl[t].ncalls < MaxOpCalls

CallsNext ==
    \/ \E b \in 0 .. 1 : TryNew("A", b)
    \/ Modify("A")
    \/ \E v \in CallStarts : Query("A", v)
    \/ \E v \in CallStarts, s \in PageSizes, b \in {0, 3} :
          OpCall("A") /\ Map("A", v, MapTarget, s, {"READ"}, b)
    \/ \E v \in CallStarts : OpCall("A") /\ Remap("A", v, RemapTarget, {"READ", "WRITE"})
    \/ \E v \in CallStarts : OpCall("A") /\ Protect("A", v, {"READ", "WRITE"})
    \/ \E v \in CallStarts : OpCall("A") /\ Unmap("A", v)
    \/ \E v \in CallStarts, huge \in BOOLEAN, b \in {0, 4} :
          OpCall("A") /\ MapRegion("A", v, 0, Size2M, {"READ"}, huge, b)
    \/ \E v \in CallStarts : OpCall("A") /\ UnmapRegion("A", v, Size2M)
    \/ \E v \in CallStarts : OpCall("A") /\ ProtectRegion("A", v, Size2M, {"READ", "WRITE"})
    \/ Finish("A")
    \/ DropMut("A")
    \/ DropTable("A")

SpecCalls == CallsInit /\ [][CallsNext]_vars

\* C23: query, remap, protect, unmap, unmap_region, protect_region and finish
\* call alloc_frame never, and query changes no memory and no handle state; a
\* call that allocates is try_new, map or map_region; map, remap, protect, unmap
\* and the region calls call dealloc_frame never, so that the tables stay
\* allocated when their last mapping is unmapped.
C23_WhoAllocatesAndFrees ==
    [][/\ last'.op \in {"query", "remap", "protect", "unmap", "unmap_region",
                        "protect_region", "finish"} =>
             last'.allocd = <<>> /\ out' \subseteq out
       /\ last'.op = "query" => mem' = mem /\ hnd' = hnd /\ out' = out
       /\ (last'.allocd # <<>> \/ ~(out' \subseteq out)) =>
             last'.op \in {"try_new", "map", "map_region"}
       /\ last'.op \in {"map", "remap", "protect", "unmap", "map_region", "unmap_region",
                        "protect_region"} =>
             last'.freed = <<>> /\ out \subseteq out']_vars

C23_Witness ==
    /\ last.op \in {"unmap", "unmap_region"} /\ last.ok
    /\ \A x \in ValidProbes : ~query(arch, mem, tbl[last.t].root, x).ok
    /\ Cardinality(OwnedFrames(last.t)) = LEVELS(arch)

\* C24: try_new calls alloc_frame once; when that fails it returns NoMemory, no
\* table exists and no frame is outstanding that was not before; otherwise the
\* frame is the root, it is zero-filled, every query returns NotMapped and no
\* entry is marked borrowed; and Drop of the table right after try_new calls
\* dealloc_frame once, on the root frame.
C24_TryNewFreshTable ==
    /\ [][last'.op = "try_new" =>
             IF last'.ok
             THEN /\ Len(last'.allocd) = 1
                  /\ tbl'[last'.t].root = last'.allocd[1] /\ last'.rpaddr = last'.allocd[1]
                  /\ out' = out \cup {last'.allocd[1]}
                  /\ mem'[tbl'[last'.t].root] = ZeroTable
                  /\ \A x \in ValidProbes :
                        query(arch, mem', tbl'[last'.t].root, x).err = "NotMapped"
                  /\ tbl'[last'.t].borrowed = {}
             ELSE /\ last'.err = "NoMemory"
                  /\ last'.allocd = <<>> /\ out' = out
                  /\ ~tbl'[last'.t].alive]_vars
    /\ [][(last'.op = "drop" /\ last.op = "try_new" /\ last.ok /\ last.t = last'.t) =>
             /\ last'.freed = <<tbl[last'.t].root>>
             /\ out' = out \ {tbl[last'.t].root}]_vars

C24_Witness ==
    /\ last.op = "drop" /\ tbl[last.t].ncalls = 0
    /\ last.freed = <<tbl[last.t].root>>
    /\ mem[tbl[last.t].root] = ZeroTable
    /\ \E f \in PoolFrames : mem[f] = JunkTable

----------------------------------------------------------------------------
(* Specification SpecCodec: the entry codecs applied to one entry *)

\* the frame and index of the entry the codec calls are made on
CodecFrames == {SetMin(PoolFrames)}
CodecIndices == {0}

\* physical addresses: aligned to every page size, and to the base page only
CodecPaddrs == {DataBase, DataBase + PAGE_SIZE_4K}

CodecFlags == SUBSET PagingFlagBits

CodecInit == InitWith(Archs, {FALSE}, {ZeroTable})

CodecDone(f, i, e, rec) ==
    /\ mem' = [mem EXCEPT ![f][i] = e]
    /\ last' = [rec EXCEPT !.rpaddr = e.paddr, !.rflags = entry_flags(arch, e)]
    /\ UNCHANGED <<arch, checks, out, owner, tbl, hnd>>

\* PTE::new_page(paddr, flags, huge)
NewPage(f, i, paddr, flags, huge) ==
    CodecDone(f, i, new_page(arch, paddr, flags, huge),
              [LastRec("new_page", "none", 0, paddr, 0, flags, TRUE, "Ok")
                  EXCEPT !.huge = huge])

\* entry.set_flags(flags, huge)
SetFlags(f, i, flags, huge) ==
    CodecDone(f, i, set_flags(arch, mem[f][i], flags, huge),
              [LastRec("set_flags", "none", 0, mem[f][i].paddr, 0, flags, TRUE, "Ok")
                  EXCEPT !.huge = huge])

\* entry.set_paddr(paddr)
SetPaddr(f, i, paddr) ==
    CodecDone(f, i, set_paddr(mem[f][i], paddr),
              LastRec("set_paddr", "none", 0, paddr, 0, entry_flags(arch, mem[f][i]),
                      TRUE, "Ok"))

CodecNext ==
    \E f \in CodecFrames, i \in CodecIndices :
       \/ \E p \in CodecPaddrs, fl \in CodecFlags, huge \in BOOLEAN :
             (huge => is_aligned(p, Size1G)) /\ NewPage(f, i, p, fl, huge)
       \/ \E fl \in CodecFlags, huge \in BOOLEAN :
             ~is_unused(mem[f][i]) /\ SetFlags(f, i, fl, huge)
       \/ \E p \in CodecPaddrs : ~is_unused(mem[f][i]) /\ SetPaddr(f, i, p)

SpecCodec == CodecInit /\ [][CodecNext]_vars

\* C25: on every architecture, for every set of flags, both values of huge and
\* every aligned paddr, the entry new_page makes gives back the paddr and the
\* flags; set_flags on an existing entry gives back the flags and keeps the
\* paddr, and set_paddr gives back the paddr and keeps the flags.
C25_CodecRoundTrip ==
    [][last'.op \in {"new_page", "set_flags", "set_paddr"} =>
          /\ last'.rpaddr = last'.paddr
          /\ last'.rflags = last'.flags]_vars

----------------------------------------------------------------------------
(* The pending-flush record *)

\* the addresses of the successful mutations of the call recorded in rec
MutatedBy(rec) ==
    IF rec.op \in {"map", "remap", "protect", "unmap"}
    THEN (IF rec.ok THEN <<rec.vaddr>> ELSE <<>>)
    ELSE IF rec.op \in {"map_region", "unmap_region", "protect_region"}
         THEN CallAddrs(OkAddrs(rec.calls))
         ELSE <<>>

\* C26: the pending-flush record is None when the handle is created; a call that
\* is not finish or Drop appends the addresses of its successful mutations to
\* the list (None counting as the empty list) while that gives at most 16
\* addresses and makes the record Full otherwise; Full stays Full; finish and
\* Drop always leave None and nothing else leaves Addresses or Full for None;
\* and an Addresses list always holds between 1 and 16 addresses.
C26_FlushRecordStates ==
    /\ [](\A t \in TableIds :
            LET fl == hnd[t].flush IN
            /\ fl.kind \in {"None", "Addresses", "Full"}
            /\ fl.kind = "Addresses" =>
                  Len(fl.addrs) >= 1 /\ Len(fl.addrs) <= FLUSH_THRESHOLD
            /\ fl.kind # "Addresses" => fl.addrs = <<>>)
    /\ [][LET t == last'.t
              old == hnd[t].flush
              new == hnd'[t].flush
              all == old.addrs \o MutatedBy(last')
          IN  CASE last'.op = "modify" -> new = NoFlush
                [] EndsBatch(last') -> new = NoFlush
                [] last'.op \in {"init", "try_new", "drop"} -> TRUE
                [] OTHER ->
                     IF old.kind = "Full" THEN new = old
                     ELSE IF Len(all) = 0 THEN new = old /\ old.kind = "None"
                     ELSE IF Len(all) <= FLUSH_THRESHOLD
                          THEN new = [kind |-> "Addresses", addrs |-> all]
                          ELSE new = [kind |-> "Full", addrs |-> <<>>]]_vars

C26_Witness ==
    /\ last.op \in {"map", "unmap", "map_region", "unmap_region", "protect_region"}
    /\ hnd[last.t].flush.kind = "Addresses"
    /\ Len(hnd[last.t].flush.addrs) = FLUSH_THRESHOLD

\* the number of times address v occurs in the sequence q
Occurrences(q, v) == Cardinality({i \in 1 .. Len(q) : q[i] = v})

\* C27: finish and Drop leave the record None; when they issue single-address
\* flushes, each address is flushed as many times as it was recorded since the
\* last finish, once per recording; a finish or Drop that follows a finish of
\* the same handle with no call in between flushes nothing; and the first
\* call after a finish starts a new batch that holds that call's mutations
\* only, also when the batch before it had overflowed to Full.
C27_FinishResetsBatch ==
    /\ [][EndsBatch(last') =>
             LET muts == hnd[last'.t].muts IN
             /\ hnd'[last'.t].flush = NoFlush
             /\ FlushAll \notin Range(last'.flushed) =>
                   /\ Len(last'.flushed) = Len(muts)
                   /\ \A v \in Range(muts) \cup Range(last'.flushed) :
                         Occurrences(last'.flushed, v) = Occurrences(muts, v)
             /\ FlushAll \in Range(last'.flushed) =>
                   last'.flushed = <<FlushAll>> /\ Len(muts) > FLUSH_THRESHOLD]_vars
    /\ [][(EndsBatch(last') /\ last.op = "finish" /\ last'.t = last.t) =>
             last'.flushed = <<>>]_vars
    /\ [][(last.op = "finish" /\ last'.t = last.t /\ ~EndsBatch(last')
           /\ last'.op \notin {"init", "try_new", "modify", "drop", "query"}) =>
             LET m == MutatedBy(last') IN
             /\ hnd'[last'.t].muts = m
             /\ hnd'[last'.t].flush
                  = IF m = <<>> THEN NoFlush ELSE [kind |-> "Addresses", addrs |-> m]]_vars

\* a finish with nothing to flush on a table whose mappings were flushed before
C27_Witness ==
    /\ last.op = "finish" /\ last.flushed = <<>>
    /\ tbl[last.t].ncalls >= 1
    /\ \E x \in ValidProbes : query(arch, mem, tbl[last.t].root, x).ok

PtErrors == {"AlreadyMapped", "NotMapped", "MappedToHugePage", "NoMemory", "NotAligned"}

\* C28 as stated: M::flush_tlb is called by finish and Drop of the handle only,
\* and every call that returns an error leaves the pending-flush record as it
\* was.
C28_ErrorLeavesFlushRecord ==
    [][/\ last'.flushed # <<>> => EndsBatch(last')
       /\ (~last'.ok /\ last'.err \in PtErrors) =>
             hnd'[last'.t].flush = hnd[last'.t].flush]_vars

\* C28: M::flush_tlb is called by finish and Drop of the handle only; a
\* single-page call that returns an error leaves the pending-flush record as it
\* was; a region call that returns an error leaves the record as it was when
\* none of its single-page calls succeeded, and otherwise with the addresses of
\* the successful ones recorded.
C28_FlushOnlyAtFinish ==
    [][/\ last'.flushed # <<>> => EndsBatch(last')
       /\ (~last'.ok /\ last'.err \in PtErrors) =>
             LET old == hnd[last'.t].flush
                 new == hnd'[last'.t].flush
                 all == old.addrs \o MutatedBy(last')
             IN  /\ last'.op \in {"map", "remap", "protect", "unmap"} => new = old
                 /\ MutatedBy(last') = <<>> => new = old
                 /\ (MutatedBy(last') # <<>> /\ old.kind # "Full") =>
                       new = IF Len(all) <= FLUSH_THRESHOLD
                             THEN [kind |-> "Addresses", addrs |-> all]
                             ELSE [kind |-> "Full", addrs |-> <<>>]]_vars

C28_Witness ==
    /\ last.op \in {"map_region", "unmap_region"}
    /\ ~last.ok /\ last.err \in PtErrors
    /\ MutatedBy(last) # <<>>
    /\ hnd[last.t].flush.kind = "Addresses"

----------------------------------------------------------------------------
(* copy_from and the handle's flush record *)

\* C29: when copy_from replaces a top-level entry under which the table had a
\* present mapping, the pending-flush record of the handle is not None
\* afterwards, so that finish or Drop of the handle flushes.
C29_CopyFromRecordsFlush ==
    [][(/\ last'.op = "copy_from"
        /\ \E x \in ValidProbes :
              /\ index_fn(arch, x) \in CopiedIndices(last'.vaddr, last'.size)
              /\ query(arch, mem, tbl[last'.t].root, x).ok) =>
          hnd'[last'.t].flush.kind # "None"]_vars

\* C30: when B has copied from A and is dropped before A, Drop of A leaves no
\* frame outstanding that either table allocated, and every Drop passes to
\* dealloc_frame only outstanding frames, each once.
C30_BothDroppedNothingLeft ==
    [][last'.op = "drop" =>
          /\ NoDuplicates(last'.freed)
          /\ Range(last'.freed) \subseteq out
          /\ (last'.t = "A" /\ tbl["B"].dropped /\ tbl["B"].shared) => out' = {}]_vars

----------------------------------------------------------------------------
(* Specification SpecBorrow: table A keeps changing after table B has      *)
(* copied top-level entries from it                                        *)

\* copy_from starts: the first address of a top-level entry and one inside it
BorrowStarts == {0, Size4K, TopSpan}

\* copy_from sizes: nothing, part of an entry, one entry, two entries
BorrowSizes == {0, PAGE_SIZE_4K, TopSpan, 2 * TopSpan}

\* the addresses of the single-page calls
BorrowAddrs == {0, Size4K, TopSpan}

\* mutating calls on table A; table B makes one call, a copy_from
MaxBorrowCalls == 2

BorrowCall == tbl["A"].ncalls < MaxBorrowCalls

BorrowInit == InitWith(Archs, {FALSE}, {ZeroTable})

BorrowNext ==
    \/ \E t \in TableIds : TryNew(t, 1)
    \/ \E t \in TableIds : Modify(t)
    \/ \E v \in BorrowAddrs, s \in {Size4K, Size1G} :
          BorrowCall /\ Map("A", v, MapTarget, s, {"READ"}, 3)
    \/ \E v \in BorrowAddrs : BorrowCall /\ Unmap("A", v)
    \/ \E v \in BorrowAddrs : BorrowCall /\ Protect("A", v, {"READ", "WRITE"})
    \/ \E start \in BorrowStarts, size \in BorrowSizes :
          tbl["B"].ncalls = 0 /\ CopyFrom("B", "A", start, size)
    \/ \E t \in TableIds : DropMut(t)
    \/ \E t \in TableIds : DropTable(t)

SpecBorrow == BorrowInit /\ [][BorrowNext]_vars

\* the valid probe addresses under top-level index i
ProbesUnder(i) == {x \in ValidProbes : index_fn(arch, x) = i}

\* the entry of the call just made lies below the root, under a top-level
\* entry that B copied from A and that points to a child table
BelowShared(i) ==
    /\ tbl["B"].alive /\ i \in tbl["B"].borrowed
    /\ mem[tbl["B"].root][i] = mem[tbl["A"].root][i]
    /\ next_table(arch, mem[tbl["A"].root][i]).ok

\* C31: right after B.copy_from(&A, start, size) B and A translate every
\* address under a copied top-level index alike; a later map, unmap or
\* protect through A below a top-level entry both tables hold (a child table)
\* leaves them translating every address under that entry alike; a map
\* through A that installs a new top-level entry of A changes no entry of
\* B's root and no translation of B, and B does not translate the address
\* when its own entry there is unused.
C31_CopyFromSharesLowerLevels ==
    [][/\ last'.op = "copy_from" =>
             \A i \in CopiedIndices(last'.vaddr, last'.size) : \A x \in ProbesUnder(i) :
                query(arch, mem', tbl["B"].root, x) = query(arch, mem', tbl["A"].root, x)
       /\ (/\ last'.op \in {"map", "unmap", "protect"} /\ last'.t = "A"
           /\ BelowShared(index_fn(arch, last'.vaddr))) =>
             \A x \in ProbesUnder(index_fn(arch, last'.vaddr)) :
                query(arch, mem', tbl["B"].root, x) = query(arch, mem', tbl["A"].root, x)
       /\ (/\ last'.op = "map" /\ last'.t = "A" /\ last'.ok
           /\ tbl["B"].alive /\ index_fn(arch, last'.vaddr) \in tbl["B"].borrowed
           /\ is_unused(mem[tbl["A"].root][index_fn(arch, last'.vaddr)])) =>
             /\ mem'[tbl["B"].root] = mem[tbl["B"].root]
             /\ SameQueries(mem, mem', tbl["B"].root)
             /\ is_unused(mem[tbl["B"].root][index_fn(arch, last'.vaddr)]) =>
                   ~query(arch, mem', tbl["B"].root, last'.vaddr).ok]_vars

\* A has unmapped a page below an entry B borrowed: B no longer translates it
C31_Witness ==
    /\ last.op = "unmap" /\ last.t = "A" /\ last.ok
    /\ tbl["B"].alive /\ index_fn(arch, last.vaddr) \in tbl["B"].borrowed
    /\ mem[tbl["B"].root][index_fn(arch, last.vaddr)] = mem[tbl["A"].root][index_fn(arch, last.vaddr)]
    /\ next_table(arch, mem[tbl["A"].root][index_fn(arch, last.vaddr)]).ok
    /\ query(arch, mem, tbl["B"].root, last.vaddr).err = "NotMapped"

\* C32: copy_from(other, start, size) with size > 0 writes the other table's
\* root entry into every root entry of this table whose index lies in
\* idx(start) .. idx(start + size - 1), the whole slot also where the range
\* covers part of it, and marks these indices borrowed; it changes no other
\* root entry, no other borrowed mark and no other table frame, the other
\* table's included; with size = 0 it changes nothing; and no step ever
\* clears a borrowed mark.
C32_CopyFromFrame ==
    [][/\ last'.op = "copy_from" =>
             LET t == last'.t
                 idxs == CopiedIndices(last'.vaddr, last'.size)
             IN  /\ \A f \in FrameAddrs \ {tbl[t].root} : mem'[f] = mem[f]
                 /\ \A i \in Indices \ idxs : mem'[tbl[t].root][i] = mem[tbl[t].root][i]
                 /\ \A i \in idxs : mem'[tbl[t].root][i] = mem[tbl["A"].root][i]
                 /\ tbl'[t].borrowed = tbl[t].borrowed \cup idxs
                 /\ tbl'["A"].borrowed = tbl["A"].borrowed
                 /\ tbl'[t].root = tbl[t].root
                 /\ last'.size = 0 => /\ mem' = mem /\ out' = out /\ hnd' = hnd
                                      /\ tbl'[t].borrowed = tbl[t].borrowed
       /\ \A t \in TableIds : tbl[t].borrowed \subseteq tbl'[t].borrowed]_vars

\* a copy of part of one top-level slot has replaced the whole entry, a child
\* table of A, and left the other indices unmarked
C32_Witness ==
    /\ last.op = "copy_from" /\ last.size = PAGE_SIZE_4K /\ last.vaddr = Size4K
    /\ tbl["B"].borrowed = {index_fn(arch, last.vaddr)}
    /\ next_table(arch, mem[tbl["B"].root][index_fn(arch, last.vaddr)]).ok
    /\ mem[tbl["B"].root] = mem[tbl["A"].root]
    /\ query(arch, mem, tbl["B"].root, 0).ok

----------------------------------------------------------------------------
(* The level an entry sits at *)

\* the frame the entries on vaddr's path point to, followed whatever the
\* entries are: the level-3, level-2 and level-1 table of vaddr in memory m
P3Frame(m, root, vaddr) == IF LEVELS(arch) = 3 THEN root ELSE m[root][p4_idx(vaddr)].paddr
P2Frame(m, root, vaddr) == m[P3Frame(m, root, vaddr)][p3_idx(vaddr)].paddr
P1Frame(m, root, vaddr) == m[P2Frame(m, root, vaddr)][p2_idx(vaddr)].paddr

\* the entry of the level that translates pages of page_size, on vaddr's path
LevelEntry(m, root, vaddr, page_size) ==
    IF page_size = Size1G THEN m[P3Frame(m, root, vaddr)][p3_idx(vaddr)]
    ELSE IF page_size = Size2M THEN m[P2Frame(m, root, vaddr)][p2_idx(vaddr)]
    ELSE m[P1Frame(m, root, vaddr)][p1_idx(vaddr)]

\* entry e points to a child table that alloc_table handed out
IsTablePointer(e) == e.paddr \in PoolFrames /\ e.paddr \in out /\ e = new_table(arch, e.paddr)

\* entry e is a page entry as new_page, remap or protect leave one at a level
\* of huge pages (huge) or of base pages
IsPageEntry(e, huge) ==
    /\ e.paddr \notin PoolFrames
    /\ \E f \in SUBSET PagingFlagBits : e = new_page(arch, e.paddr, f, huge)

RECURSIVE LevelsOK(_, _, _)

\* every entry of the level-numbered table in frame f, and of the tables
\* below it, is unused, a pointer to a table one level down, or a page entry
\* of this level's page size; level 4 translates no pages
LevelsOK(m, f, level) ==
    \A i \in Indices :
       \/ is_unused(m[f][i])
       \/ level > 1 /\ IsTablePointer(m[f][i]) /\ LevelsOK(m, m[f][i].paddr, level - 1)
       \/ level < 4 /\ IsPageEntry(m[f][i], level > 1)

C34_PagesAndTablesKeptApart ==
    [][/\ (last'.op = "map" /\ last'.ok /\ size_is_huge(last'.size)) =>
             ~next_table(arch, LevelEntry(mem', tbl[last'.t].root, last'.vaddr, last'.size)).ok
       /\ (last'.op \in {"remap", "protect"} /\ last'.ok /\ size_is_huge(last'.rsize)) =>
             ~next_table(arch, LevelEntry(mem', tbl[last'.t].root, last'.vaddr, last'.rsize)).ok
       /\ last'.op = "map" =>
             \A a \in Range(last'.allocd) :
                \E f \in FrameAddrs, i \in Indices :
                   /\ mem'[f][i] = new_table(arch, a)
                   /\ ~is_unused(mem'[f][i]) /\ ~is_huge(arch, mem'[f][i])
                   /\ next_table(arch, mem'[f][i]).paddr = a]_vars

----------------------------------------------------------------------------
(* The range a region call touches *)

\* C35: unmap_region(vaddr, size) and protect_region(vaddr, size, flags)
\* with vaddr and size multiples of 4K, whatever they return, leave the
\* translation of every address outside [vaddr, vaddr + size) as it was.
C35_RegionOpsStayInRange ==
    [][(/\ last'.op \in {"unmap_region", "protect_region"}
        /\ is_aligned(last'.vaddr, PAGE_SIZE_4K) /\ is_aligned(last'.size, PAGE_SIZE_4K)) =>
          \A x \in ValidProbes :
             ~InRange(x, last'.vaddr, last'.size) =>
                query(arch, mem', tbl[last'.t].root, x) = query(arch, mem, tbl[last'.t].root, x)]_vars

RECURSIVE StepsTotal(_)

\* the sizes a region call has subtracted from rem_size, summed
StepsTotal(calls) == IF calls = <<>> THEN 0 ELSE Head(calls).size + StepsTotal(Tail(calls))

\* C36: in unmap_region and protect_region with vaddr and size multiples of
\* 4K the page sizes subtracted from rem_size never add up to more than size
\* (no underflow: no panic, no wrapped counter), and the loop makes at most
\* size / 4K single-page calls and returns.
C36_RegionCounterNeverUnderflows ==
    [][(/\ last'.op \in {"unmap_region", "protect_region"}
        /\ is_aligned(last'.vaddr, PAGE_SIZE_4K) /\ is_aligned(last'.size, PAGE_SIZE_4K)) =>
          /\ StepsTotal(last'.calls) <= last'.size
          /\ last'.err \notin {"Panic", "Hang"}
          /\ Len(last'.calls) <= last'.size \div PAGE_SIZE_4K]_vars

----------------------------------------------------------------------------
(* AlreadyMapped and what query reports *)

\* query finds no mapping at any address of the page of page_size around vaddr
NothingMapped(m, root, vaddr, page_size) ==
    \A x \in ValidProbes :
       InRange(x, align_down(vaddr, page_size), page_size) =>
          query(arch, m, root, x).err = "NotMapped"

\* C37: a map call for a page in which query finds no address mapped does not
\* fail with AlreadyMapped.
C37_AlreadyMappedOnlyWhenOccupied ==
    [][(/\ last'.op = "map"
        /\ NothingMapped(mem, tbl[last'.t].root, last'.vaddr, last'.size)) =>
          last'.err # "AlreadyMapped"]_vars

----------------------------------------------------------------------------
(* map that runs out of memory *)

\* the map call just made, made again on the state it left with an allocator
\* that can give `frames` frames
Retry(frames) ==
    map(arch, MkSt(mem', out', frames), hnd'[last'.t].flush, tbl[last'.t].root,
        last'.vaddr, last'.paddr, last'.size, last'.flags)

\* the same map call on the state before it, with `frames` frames
Afresh(frames) ==
    map(arch, MkSt(mem, out, frames), hnd[last'.t].flush, tbl[last'.t].root,
        last'.vaddr, last'.paddr, last'.size, last'.flags)

\* C38: a map call that fails with NoMemory changes no translation and not
\* the pending-flush record; the tables it allocated before failing are
\* outstanding, reachable from the root and passed to dealloc_frame once each
\* by a Drop of the table; and the same call made again with enough frames
\* succeeds, allocating only the tables the failed call did not create.
C38_NoMemoryIsRecoverable ==
    [][(last'.op = "map" /\ last'.err = "NoMemory") =>
          /\ SameQueries(mem, mem', tbl[last'.t].root)
          /\ hnd'[last'.t].flush = hnd[last'.t].flush
          /\ Range(last'.allocd) \subseteq out'
          /\ Range(last'.allocd) \subseteq Reach(mem', tbl[last'.t].root, 0)
          /\ \A f \in Range(last'.allocd) :
                Occurrences(drop_table(arch, mem', tbl[last'.t].root, tbl[last'.t].borrowed), f) = 1
          /\ Retry(LEVELS(arch)).ok
          /\ Len(Retry(LEVELS(arch)).st.allocd) + Len(last'.allocd)
                = Len(Afresh(LEVELS(arch)).st.allocd)
          /\ Range(Retry(LEVELS(arch)).st.allocd) \cap Range(last'.allocd) = {}]_vars

\* a Size4K map has failed with NoMemory after creating two of its tables
C38_Witness ==
    /\ last.op = "map" /\ last.err = "NoMemory" /\ last.size = Size4K
    /\ Len(last.allocd) = 2
    /\ Range(last.allocd) \subseteq Reach(mem, tbl["A"].root, 0)
    /\ ~query(arch, mem, tbl["A"].root, last.vaddr).ok

----------------------------------------------------------------------------
(* The address unmap has been called on *)

\* C39: once unmap(v) has returned Ok or NotMapped, query(v) is NotMapped and
\* a map(v, paddr, Size4K, flags) that follows at once does not fail with
\* AlreadyMapped, whatever its flags and however many frames it can get.
C39_UnmapLeavesAddressFree ==
    [][(last'.op = "unmap" /\ last'.err \in {"Ok", "NotMapped"}) =>
          /\ query(arch, mem', tbl[last'.t].root, last'.vaddr).err = "NotMapped"
          /\ \A f \in FlagChoices, b \in 0 .. 3 :
                map(arch, MkSt(mem', out', b), hnd'[last'.t].flush, tbl[last'.t].root,
                    last'.vaddr, MapTarget, Size4K, f).err # "AlreadyMapped"]_vars

\* unmap has returned NotMapped for an address whose entry the one earlier
\* call of the batch had left non-zero and not present; the entry is now unused
C39_Witness ==
    /\ last.op = "unmap" /\ last.err = "NotMapped"
    /\ hnd[last.t].muts = <<last.vaddr>>
    /\ get_entry(arch, mem, tbl[last.t].root, last.vaddr).ok
    /\ get_entry(arch, mem, tbl[last.t].root, last.vaddr).size = Size4K
    /\ P1Frame(mem, tbl[last.t].root, last.vaddr) \in out
    /\ is_unused(LevelEntry(mem, tbl[last.t].root, last.vaddr, Size4K))
    /\ tbl[last.t].ncalls = 2

----------------------------------------------------------------------------
(* Specification SpecLazy: map calls on a new table, on frames that hold   *)
(* whatever the allocator's earlier users left in them                     *)

\* the first addresses of the first two 4K, 2M and 1G pages
LazyAddrs == {0, Size4K, Size2M, Size1G}

\* map calls per table
MaxLazyCalls == 2

LazyNext ==
    \/ TryNew("A", 1)
    \/ Modify("A")
    \/ \E v \in LazyAddrs, s \in PageSizes, b \in 0 .. 3 :
          /\ tbl["A"].ncalls < MaxLazyCalls /\ is_aligned(v, s)
          /\ Map("A", v, MapTarget, s, {"READ"}, b)
    \/ DropMut("A")
    \/ DropTable("A")

SpecLazy == CallsInit /\ [][LazyNext]_vars

\* the tables above the entry of a page of page_size: one per level from the
\* root's children down to the level of the entry
TablesAbove(page_size) ==
    LEVELS(arch) - (IF page_size = Size4K THEN 1 ELSE IF page_size = Size2M THEN 2 ELSE 3)

\* some mapping of a page no larger than page_size lies in the table that
\* holds the entry for (vaddr, page_size)
SharesPath(m, root, vaddr, page_size) ==
    \E x \in ValidProbes :
       /\ x \div (page_size * ENTRY_COUNT) = vaddr \div (page_size * ENTRY_COUNT)
       /\ query(arch, m, root, x).ok
       /\ query(arch, m, root, x).size <= page_size

\* C40: a successful map into a table whose root is empty calls alloc_frame
\* LEVELS-1 times for Size4K, LEVELS-2 times for Size2M and LEVELS-3 times
\* for Size1G; every frame a map call allocates is a frame that was not
\* outstanding and holds, after the call, nothing but the one entry the call
\* wrote into it; and a successful map whose entry lies in a table that
\* already holds a mapping allocates nothing.
C40_TablesCreatedLazily ==
    [][last'.op = "map" =>
          /\ (last'.ok /\ mem[tbl[last'.t].root] = ZeroTable) =>
                Len(last'.allocd) = TablesAbove(last'.size)
          /\ NoDuplicates(last'.allocd)
          /\ Range(last'.allocd) \cap out = {}
          /\ \A f \in Range(last'.allocd) :
                Cardinality({i \in Indices : mem'[f][i] # ZeroEntry}) <= 1
          /\ (last'.ok /\ SharesPath(mem, tbl[last'.t].root, last'.vaddr, last'.size)) =>
                last'.allocd = <<>>]_vars

\* the second 4K page of a table has been mapped next to the first, without
\* a new frame, in tables made of frames that held other contents before
C40_Witness ==
    /\ last.op = "map" /\ last.ok /\ last.vaddr = Size4K /\ last.allocd = <<>>
    /\ query(arch, mem, tbl["A"].root, 0).size = Size4K
    /\ query(arch, mem, tbl["A"].root, Size4K).ok
    /\ Cardinality(out) = LEVELS(arch)
    /\ \E f \in PoolFrames \ out : mem[f] = JunkTable

====
